---------------------------- MODULE Spec2Model ----------------------------
(***************************************************************************)
(* Model of sclassifier/preprocessing.py: the DataPreprocessor pipeline    *)
(* and the transform stages it composes.                                   *)
(*                                                                         *)
(* Pixel values are numpy floats.  They are modelled as exact rationals    *)
(* <<n, d>> in lowest terms with d > 0, plus the three non-finite values   *)
(* NaN = <<0,0>>, +Inf = <<1,0>>, -Inf = <<-1,0>>.  Arithmetic follows     *)
(* IEEE-754 for the non-finite cases (x/0, 0/0, Inf-Inf, NaN propagation); *)
(* rounding of finite results and the sign of zero are not modelled.       *)
(*                                                                         *)
(* A tensor is a record [kind, h, w, c, px] with px a function from        *)
(* <<row, column, channel>> (all 0-based, as in numpy) to a value.  The    *)
(* Python value None is NoneVal, and an exception that leaves a call is    *)
(* Raise(exception name).                                                  *)
(***************************************************************************)
EXTENDS Integers, Sequences, FiniteSets, TLC

VARIABLES
  preprocess_stages,  \* the caller's stage list (run_simclr.py), a sequence of object ids
  objs,               \* the stage objects, id -> configuration
  dp,                 \* DataPreprocessor built from preprocess_stages (train)
  dp_val,             \* DataPreprocessor built from the same stage objects (validation)
  pc,                 \* position of the program: "main", "stages", "dp" while main() builds
                      \* the pipelines, then "idle", "running", "done" for a pipeline call
  who,                \* which pipeline is being called: "dp" or "dp_val"
  x0,                 \* the tensor passed to the pipeline call
  rnd,                \* the draws the augmentation backend makes during this call
  cur,                \* the value flowing through the composed function
  k,                  \* number of functions of the composition still to apply
  calls,              \* the stage objects invoked so far in this call, in order
  ret,                \* what the pipeline call returned
  disabled,           \* history: the pipelines disable_augmentation was called on
  ndisable,           \* history: the number of disable_augmentation calls on each pipeline
  stage,              \* stage object of the last single-stage call
  arg,                \* the caller's tensor, as passed to the single-stage call
  arg_after,          \* the caller's tensor after the call
  out,                \* what the single-stage call returned or raised
  backend,            \* what the library the single-stage call relies on did
  np_random,          \* the state of the process-wide generator numpy.random
  augs,               \* the custom augmenter object of each worker
  run                 \* each worker's position in _augment_batch_ and its locals

pvars == <<preprocess_stages, objs, dp, dp_val, pc, who, x0, rnd, cur, k, calls, ret,
           disabled, ndisable>>
svars == <<stage, arg, arg_after, out, backend>>
avars == <<np_random, augs, run>>
vars == <<preprocess_stages, objs, dp, dp_val, pc, who, x0, rnd, cur, k, calls, ret,
          disabled, ndisable, stage, arg, arg_after, out, backend, np_random, augs, run>>

-----------------------------------------------------------------------------
(* Bounds of the model *)

MaxVal == 2      \* pixel values are NaN, -1 and the integers 0..MaxVal
MaxStages == 3   \* longest stage list given to DataPreprocessor
MaxImages == 2   \* longest batch given to a custom augmenter
MaxBatches == 2  \* batch calls made on one augmenter object
MaxDisable == 2  \* disable_augmentation calls made on one pipeline

-----------------------------------------------------------------------------
(* numpy float arithmetic *)

NaN == <<0, 0>>
PInf == <<1, 0>>
NInf == <<-1, 0>>

Abs(n) == IF n < 0 THEN -n ELSE n

RECURSIVE GCD(_, _)
GCD(a, b) == IF b = 0 THEN a ELSE GCD(b, a % b)

\* the float n/d, d # 0, in lowest terms
Fin(n, d) ==
  LET s == IF d < 0 THEN -1 ELSE 1
      g == GCD(Abs(n), Abs(d))
  IN  <<(s * n) \div g, (s * d) \div g>>

FInt(n) == <<n, 1>>

isfinite(v) == v[2] # 0
IsInf(v) == v[2] = 0 /\ v[1] # 0
Sgn(v) == IF v[1] > 0 THEN 1 ELSE IF v[1] < 0 THEN -1 ELSE 0

\* np.logical_and(data != 0, np.isfinite(data)): the validity mask of a pixel
Valid(v) == v[2] # 0 /\ v[1] # 0

FNeg(a) == <<-a[1], a[2]>>

FAdd(a, b) ==
  IF a = NaN \/ b = NaN THEN NaN
  ELSE IF IsInf(a) THEN (IF IsInf(b) /\ b # a THEN NaN ELSE a)
  ELSE IF IsInf(b) THEN b
  ELSE Fin(a[1] * b[2] + b[1] * a[2], a[2] * b[2])

FSub(a, b) == FAdd(a, FNeg(b))

FMul(a, b) ==
  IF a = NaN \/ b = NaN THEN NaN
  ELSE IF IsInf(a) \/ IsInf(b)
       THEN (IF Sgn(a) * Sgn(b) = 0 THEN NaN ELSE <<Sgn(a) * Sgn(b), 0>>)
  ELSE Fin(a[1] * b[1], a[2] * b[2])

\* true division; numpy warns and yields Inf or NaN on a zero divisor
FDiv(a, b) ==
  IF a = NaN \/ b = NaN THEN NaN
  ELSE IF IsInf(a) THEN (IF IsInf(b) THEN NaN
                         ELSE <<Sgn(a) * (IF Sgn(b) < 0 THEN -1 ELSE 1), 0>>)
  ELSE IF IsInf(b) THEN FInt(0)
  ELSE IF b[1] = 0 THEN (IF a[1] = 0 THEN NaN ELSE <<Sgn(a), 0>>)
  ELSE Fin(a[1] * b[2], a[2] * b[1])

\* a < b; every comparison with NaN is False
FLt(a, b) ==
  IF a = NaN \/ b = NaN THEN FALSE
  ELSE IF isfinite(a) /\ isfinite(b) THEN a[1] * b[2] < b[1] * a[2]
  ELSE IF a = NInf THEN b # NInf
  ELSE IF a = PInf THEN FALSE
  ELSE b = PInf

FLe(a, b) == a # NaN /\ b # NaN /\ ~FLt(b, a)

\* ndarray.min() / .max() of a non-empty set of finite values
MinOf(S) == CHOOSE m \in S : \A v \in S : FLe(m, v)
MaxOf(S) == CHOOSE m \in S : \A v \in S : FLe(v, m)

-----------------------------------------------------------------------------
(* tensors, None and exceptions *)

NoneVal == [kind |-> "none"]
Raise(e) == [kind |-> "raise", exc |-> e]

Pix2(h, w) == (0 .. h - 1) \X (0 .. w - 1)
Pix3(h, w, c) == (0 .. h - 1) \X (0 .. w - 1) \X (0 .. c - 1)

Tensor(h, w, c, px) == [kind |-> "tensor", h |-> h, w |-> w, c |-> c, px |-> px]

Coords(t) == Pix3(t.h, t.w, t.c)
Chans(t) == 0 .. t.c - 1

\* data[:,:,i]
Chan(t, i) == [p \in Pix2(t.h, t.w) |-> t.px[<<p[1], p[2], i>>]]

\* data_ch[cond]: the values of the valid pixels of a channel
ValidVals(ch) == {ch[p] : p \in {q \in DOMAIN ch : Valid(ch[q])}}

\* the tensor whose channel i is chf[i]
FromChans(t, chf) ==
  Tensor(t.h, t.w, t.c, [p \in Coords(t) |-> chf[p[3]][<<p[1], p[2]>>]])

\* the first channel, in loop order, at which a per-channel loop stops
FirstIn(S) == CHOOSE i \in S : \A j \in S : i <= j

-----------------------------------------------------------------------------
(* MinMaxNormalizer *)

MinMaxNormalizer_init(nmin, nmax) ==
  [cls |-> "MinMaxNormalizer", norm_min |-> nmin, norm_max |-> nmax]

\* a normalizer that takes min and max over every finite pixel of the
\* channel, the masked zeros included
MinMaxNormalizer_chan_finite(self, data_ch) ==
  LET fin == {data_ch[p] : p \in {q \in DOMAIN data_ch : isfinite(data_ch[q])}}
      data_ch_min == MinOf(fin)
      data_ch_max == MaxOf(fin)
  IN  [p \in DOMAIN data_ch |->
         IF ~Valid(data_ch[p]) THEN FInt(0)
         ELSE FAdd(FMul(FDiv(FSub(data_ch[p], data_ch_min),
                             FSub(data_ch_max, data_ch_min)),
                        FSub(self.norm_max, self.norm_min)),
                   self.norm_min)]

\* lines 460-463: one channel that has a valid pixel
MinMaxNormalizer_chan(self, data_ch) ==
  LET data_ch_min == MinOf(ValidVals(data_ch))
      data_ch_max == MaxOf(ValidVals(data_ch))
  IN  [p \in DOMAIN data_ch |->
         IF ~Valid(data_ch[p]) THEN FInt(0)
         ELSE FAdd(FMul(FDiv(FSub(data_ch[p], data_ch_min),
                             FSub(data_ch_max, data_ch_min)),
                        FSub(self.norm_max, self.norm_min)),
                   self.norm_min)]

MinMaxNormalizer_call(self, data) ==
  IF data = NoneVal THEN NoneVal
  ELSE IF \E i \in Chans(data) : ValidVals(Chan(data, i)) = {} THEN NoneVal
  ELSE FromChans(data, [i \in Chans(data) |-> MinMaxNormalizer_chan(self, Chan(data, i))])

-----------------------------------------------------------------------------
(* MinShifter *)

MinShifter_init(ch) == [cls |-> "MinShifter", chid |-> ch]

\* a loop that forgets the test on chid
Selected_all(self, data) == Chans(data)

\* the channels a stage with a channel selector processes (chid = -1: all)
Selected(self, data) == {i \in Chans(data) : self.chid = -1 \/ i = self.chid}

MinShifter_chan(data_ch) ==
  LET data_ch_min == MinOf(ValidVals(data_ch))
  IN  [p \in DOMAIN data_ch |->
         IF ~Valid(data_ch[p]) THEN FInt(0) ELSE FSub(data_ch[p], data_ch_min)]

MinShifter_call(self, data) ==
  IF data = NoneVal THEN NoneVal
  \* data_ch_1d.min() of an empty array raises ValueError
  ELSE IF \E i \in Selected(self, data) : ValidVals(Chan(data, i)) = {}
       THEN Raise("ValueError")
  ELSE FromChans(data, [i \in Chans(data) |->
         IF i \in Selected(self, data) THEN MinShifter_chan(Chan(data, i))
         ELSE Chan(data, i)])

-----------------------------------------------------------------------------
(* Shifter and Standardizer: per-channel parameter vectors (Python lists,   *)
(* here sequences: channel i uses element i + 1), broadcast over the last  *)
(* axis                                                                    *)

Shifter_init(offs) == [cls |-> "Shifter", offsets |-> offs]

\* a Shifter that tests only for an empty offsets vector and lets a vector
\* of another length broadcast over the channels
Shifter_call_length_unchecked(self, data) ==
  IF data = NoneVal THEN NoneVal
  ELSE IF Len(self.offsets) <= 0 THEN NoneVal
  ELSE Tensor(data.h, data.w, data.c, [p \in Coords(data) |->
         IF ~Valid(data.px[p]) THEN FInt(0)
         ELSE FSub(data.px[p], self.offsets[(p[3] % Len(self.offsets)) + 1])])

Shifter_call(self, data) ==
  IF data = NoneVal THEN NoneVal
  ELSE IF Len(self.offsets) <= 0 \/ Len(self.offsets) # data.c THEN NoneVal
  ELSE Tensor(data.h, data.w, data.c, [p \in Coords(data) |->
         IF ~Valid(data.px[p]) THEN FInt(0)
         ELSE FSub(data.px[p], self.offsets[p[3] + 1])])

Standardizer_init(mu, sd) ==
  [cls |-> "Standardizer", means |-> mu, sigmas |-> sd]

Standardizer_call(self, data) ==
  IF data = NoneVal THEN NoneVal
  ELSE IF Len(self.means) <= 0 \/ Len(self.means) # data.c THEN NoneVal
  ELSE IF Len(self.sigmas) <= 0 \/ Len(self.sigmas) # data.c THEN NoneVal
  ELSE Tensor(data.h, data.w, data.c, [p \in Coords(data) |->
         IF ~Valid(data.px[p]) THEN FInt(0)
         ELSE FDiv(FSub(data.px[p], self.means[p[3] + 1]), self.sigmas[p[3] + 1])])

-----------------------------------------------------------------------------
(* NegativeDataFixer *)

NegativeDataFixer_init == [cls |-> "NegativeDataFixer"]

NegativeDataFixer_chan(data_ch) ==
  LET data_ch_min == MinOf(ValidVals(data_ch))
      data_ch_max == MaxOf(ValidVals(data_ch))
  IN  IF FLt(FInt(0), data_ch_max) THEN data_ch
      ELSE [p \in DOMAIN data_ch |->
              IF ~Valid(data_ch[p]) THEN FInt(0) ELSE FSub(data_ch[p], data_ch_min)]

NegativeDataFixer_call(self, data) ==
  IF data = NoneVal THEN NoneVal
  \* data_ch_1d.min() of an empty array raises ValueError
  ELSE IF \E i \in Chans(data) : ValidVals(Chan(data, i)) = {} THEN Raise("ValueError")
  ELSE FromChans(data, [i \in Chans(data) |-> NegativeDataFixer_chan(Chan(data, i))])

-----------------------------------------------------------------------------
(* Scaler *)

\* line 808 reads self.scale_factors before any assignment to it, and the
\* class defines no such attribute: the constructor raises AttributeError
Scaler_init(scale_factors) == Raise("AttributeError")

Scaler_call(self, data) ==
  IF data = NoneVal THEN NoneVal
  ELSE IF Len(self.scale_factors) <= 0 \/ Len(self.scale_factors) # data.c THEN NoneVal
  ELSE Tensor(data.h, data.w, data.c, [p \in Coords(data) |->
         FMul(data.px[p], self.scale_factors[p[3] + 1])])

-----------------------------------------------------------------------------
(* The centred box used by BorderMasker, ChanMaxScaler and BkgSubtractor.   *)
(* A fraction is <<numerator, denominator>> with 0 < fraction <= 1.        *)

\* int(n * mask_fract / 2.)
HalfBox(n, f) == (n * f[1]) \div (2 * f[2])

\* rows ymin:ymax and columns xmin:xmax of an h x w channel
InBox(p, h, w, f) ==
  LET xc == w \div 2
      yc == h \div 2
      dy == HalfBox(h, f)
      dx == HalfBox(w, f)
  IN  /\ yc - dy <= p[1] /\ p[1] < yc + dy
      /\ xc - dx <= p[2] /\ p[2] < xc + dx

-----------------------------------------------------------------------------
(* BorderMasker *)

BorderMasker_init(f) == [cls |-> "BorderMasker", mask_fract |-> f]

\* data_ch[mask==0]= 0
BorderMasker_chan(self, data_ch, h, w) ==
  [p \in DOMAIN data_ch |-> IF InBox(p, h, w, self.mask_fract) THEN data_ch[p] ELSE FInt(0)]

\* the channels the loop has masked when it ends or stops at its first
\* channel without a valid pixel (data_ch_1d.min() raises ValueError there)
BorderMasker_done(data) ==
  LET empty == {i \in Chans(data) : ValidVals(Chan(data, i)) = {}}
  IN  IF empty = {} THEN Chans(data) ELSE {i \in Chans(data) : i < FirstIn(empty)}

BorderMasker_masked(self, data) ==
  FromChans(data, [i \in Chans(data) |->
     IF i \in BorderMasker_done(data)
     THEN BorderMasker_chan(self, Chan(data, i), data.h, data.w)
     ELSE Chan(data, i)])

BorderMasker_call(self, data) ==
  IF data = NoneVal THEN NoneVal
  ELSE IF BorderMasker_done(data) # Chans(data) THEN Raise("ValueError")
  ELSE BorderMasker_masked(self, data)

\* data_ch is a view of the argument: the assignment at line 937 writes into
\* the caller's array
BorderMasker_arg_after(self, data) ==
  IF data = NoneVal THEN NoneVal ELSE BorderMasker_masked(self, data)

-----------------------------------------------------------------------------
(* ChanMaxScaler *)

ChanMaxScaler_init(ref, box, f) ==
  [cls |-> "ChanMaxScaler", chref |-> ref, use_mask_box |-> box, mask_fract |-> f]

\* the valid values of channel i, inside the box when use_mask_box is set
ChanMaxScaler_vals(self, data, i) ==
  {data.px[<<p[1], p[2], i>>] :
     p \in {q \in Pix2(data.h, data.w) :
              /\ Valid(data.px[<<q[1], q[2], i>>])
              /\ (self.use_mask_box => InBox(q, data.h, data.w, self.mask_fract))}}

ChanMaxScaler_call(self, data) ==
  IF data = NoneVal THEN NoneVal
  ELSE IF self.chref \notin Chans(data) THEN Raise("IndexError")
  ELSE
    LET \* channels at which the check loop stops
        stop == {i \in Chans(data) :
                   \/ ChanMaxScaler_vals(self, data, i) = {}
                   \/ FLe(MaxOf(ChanMaxScaler_vals(self, data, i)), FInt(0))}
    IN  IF stop # {}
        THEN (IF ChanMaxScaler_vals(self, data, FirstIn(stop)) = {}
              THEN Raise("ValueError") ELSE NoneVal)
        ELSE LET data_max == MaxOf(ChanMaxScaler_vals(self, data, self.chref))
             IN  Tensor(data.h, data.w, data.c, [p \in Coords(data) |->
                   IF ~Valid(data.px[p]) THEN FInt(0) ELSE FDiv(data.px[p], data_max)])

-----------------------------------------------------------------------------
(* log10, on the values the log-domain tensors hold: powers of ten *)

RECURSIVE Pow10(_)
Pow10(e) == IF e = 0 THEN 1 ELSE 10 * Pow10(e - 1)

\* 10^e as a float
Ten(e) == IF e >= 0 THEN <<Pow10(e), 1>> ELSE <<1, Pow10(-e)>>

\* np.log10 of a power of ten between 10^-4 and 10^4
Log10(v) == FInt(CHOOSE e \in -4 .. 4 : Ten(e) = v)

-----------------------------------------------------------------------------
(* LogStretcher *)

LogStretcher_init(ch, mmn, nmin, nmax, clip) ==
  [cls |-> "LogStretcher", chid |-> ch, minmaxnorm |-> mmn,
   data_norm_min |-> nmin, data_norm_max |-> nmax, clip_neg |-> clip]

\* the channels the loop transforms: all but the excluded one
LogStretcher_chans(self, data) == {i \in Chans(data) : ~(self.chid # -1 /\ i = self.chid)}

\* cond_ch
Positive(v) == isfinite(v) /\ v[1] > 0

LogStretcher_chan(self, data_ch) ==
  LET pos == {p \in DOMAIN data_ch : Positive(data_ch[p])}
      data_ch_lg_min == MinOf({Log10(data_ch[p]) : p \in pos})
      data_ch_lg == [p \in DOMAIN data_ch |->
                       IF p \in pos THEN Log10(data_ch[p]) ELSE data_ch_lg_min]
      norm(v) == FDiv(FSub(v, self.data_norm_min),
                      FSub(self.data_norm_max, self.data_norm_min))
      clip(v) == IF self.clip_neg /\ FLt(v, FInt(0)) THEN FInt(0) ELSE v
  IN  IF self.minmaxnorm
      THEN [p \in DOMAIN data_ch |->
              IF data_ch[p] = FInt(0) \/ ~isfinite(data_ch[p]) THEN FInt(0)
              ELSE clip(norm(data_ch_lg[p]))]
      ELSE data_ch_lg

LogStretcher_call(self, data) ==
  IF data = NoneVal THEN NoneVal
  ELSE IF \E i \in LogStretcher_chans(self, data) :
            \A p \in Pix2(data.h, data.w) : ~Positive(Chan(data, i)[p])
       THEN NoneVal
  ELSE FromChans(data, [i \in Chans(data) |->
         IF i \in LogStretcher_chans(self, data)
         THEN LogStretcher_chan(self, Chan(data, i))
         ELSE Chan(data, i)])

-----------------------------------------------------------------------------
(* ChanDivider *)

ChanDivider_init(ref, lg, strip, tr, tmin, tmax) ==
  [cls |-> "ChanDivider", chref |-> ref, logtransf |-> lg, strip_chref |-> strip,
   trim |-> tr, trim_min |-> tmin, trim_max |-> tmax]

\* a division that leaves out dn[~cond_ref]= 0 (line 1260)
ChanDivider_norm_ref_unmasked(self, data) ==
  [p \in Coords(data) |->
     LET ref == data.px[<<p[1], p[2], self.chref>>]
         data_denom == IF ref = FInt(0) THEN FInt(1) ELSE ref
     IN  IF ~Valid(data.px[p]) THEN FInt(0)
         ELSE IF p[3] = self.chref THEN ref
         ELSE FDiv(data.px[p], data_denom)]

\* lines 1244-1262: data_norm
ChanDivider_norm(self, data) ==
  [p \in Coords(data) |->
     LET ref == data.px[<<p[1], p[2], self.chref>>]
         data_denom == IF ref = FInt(0) THEN FInt(1) ELSE ref
     IN  IF ~Valid(data.px[p]) THEN FInt(0)
         ELSE IF p[3] = self.chref THEN ref
         ELSE IF ~Valid(ref) THEN FInt(0)
         ELSE FDiv(data.px[p], data_denom)]

\* lines 1267-1277: data_transf, given data_norm
ChanDivider_log(self, data, data_norm) ==
  [p \in Coords(data) |->
     LET lg == IF ~Valid(data.px[p]) THEN FInt(0)
               ELSE IF FLe(data_norm[p], FInt(0)) THEN Log10(FInt(1))
               ELSE Log10(data_norm[p])
         hi == IF self.trim /\ FLt(self.trim_max, lg) THEN self.trim_max ELSE lg
         lo == IF self.trim /\ FLt(hi, self.trim_min) THEN self.trim_min ELSE hi
     IN  IF p[3] = self.chref THEN data_norm[p] ELSE lo]

ChanDivider_call(self, data) ==
  IF data = NoneVal THEN NoneVal
  ELSE IF self.chref \notin Chans(data) THEN Raise("IndexError")
  \* line 1282 names chref, which is neither a local nor a global
  ELSE IF self.strip_chref THEN Raise("NameError")
  ELSE LET data_norm == ChanDivider_norm(self, data)
       IN  Tensor(data.h, data.w, data.c,
                  IF self.logtransf THEN ChanDivider_log(self, data, data_norm)
                  ELSE data_norm)

-----------------------------------------------------------------------------
(* ZScaleTransformer.  ZScaleInterval (astropy) keeps the finite values of  *)
(* the channel as its sample; with fewer than min_npixels samples its line *)
(* fit is skipped and the limits are the sample's minimum and maximum.     *)
(* The model covers channels of fewer than min_npixels pixels.             *)

min_npixels == 5

ZScaleTransformer_init(cs) == [cls |-> "ZScaleTransformer", contrasts |-> cs]

\* transform(data_ch) for a channel with a finite pixel: subtract vmin, divide
\* by vmax - vmin unless that is 0, clip to [0, 1]
ZScaleInterval_call(data_ch) ==
  LET samples == {data_ch[p] : p \in {q \in DOMAIN data_ch : isfinite(data_ch[q])}}
      vmin == MinOf(samples)
      vmax == MaxOf(samples)
      scaled(v) == IF vmax = vmin THEN FSub(v, vmin)
                   ELSE FDiv(FSub(v, vmin), FSub(vmax, vmin))
      clip(v) == IF FLt(v, FInt(0)) THEN FInt(0) ELSE IF FLt(FInt(1), v) THEN FInt(1) ELSE v
  IN  [p \in DOMAIN data_ch |-> clip(scaled(data_ch[p]))]

ZScaleTransformer_call(self, data) ==
  IF data = NoneVal THEN NoneVal
  ELSE IF Len(self.contrasts) < data.c THEN NoneVal
  \* samples[0] of an empty sample raises IndexError
  ELSE IF \E i \in Chans(data) : \A p \in Pix2(data.h, data.w) : ~isfinite(Chan(data, i)[p])
       THEN Raise("IndexError")
  ELSE Tensor(data.h, data.w, data.c, [p \in Coords(data) |->
         IF ~Valid(data.px[p]) THEN FInt(0)
         ELSE ZScaleInterval_call(Chan(data, p[3]))[<<p[1], p[2]>>]])

-----------------------------------------------------------------------------
(* astropy.stats sigma clipping of a 1-d sample.  The sample is the set S   *)
(* of pixel positions of a channel ch; values repeat, positions do not.    *)
(* Clipping decisions compare squares, so they are exact; only a returned  *)
(* bound, which needs the standard deviation itself, is rounded (FSqrt).   *)

maxiters == 5

RECURSIVE SumVals(_, _)
SumVals(ch, S) ==
  IF S = {} THEN FInt(0)
  ELSE LET p == CHOOSE q \in S : TRUE IN FAdd(ch[p], SumVals(ch, S \ {p}))

\* np.mean; the mean of an empty sample is NaN
Mean(ch, S) == FDiv(SumVals(ch, S), FInt(Cardinality(S)))

\* np.std(ddof=0) squared
Variance(ch, S) ==
  LET m == Mean(ch, S)
      sq == [p \in S |-> FMul(FSub(ch[p], m), FSub(ch[p], m))]
  IN  FDiv(SumVals(sq, S), FInt(Cardinality(S)))

\* the k-th smallest value of the sample, k in 1..|S|
KthSmallest(ch, S, kth) ==
  CHOOSE v \in {ch[p] : p \in S} :
    /\ Cardinality({p \in S : FLt(ch[p], v)}) < kth
    /\ kth <= Cardinality({p \in S : FLe(ch[p], v)})

\* np.median
Median(ch, S) ==
  LET n == Cardinality(S)
  IN  IF n % 2 = 1 THEN KthSmallest(ch, S, (n + 1) \div 2)
      ELSE FDiv(FAdd(KthSmallest(ch, S, n \div 2), KthSmallest(ch, S, n \div 2 + 1)), FInt(2))

\* v < median - sigma_lower * std, for sigma_lower >= 0
BelowBound(v, med, var, sl) ==
  LET d == FSub(med, v) IN FLt(FInt(0), d) /\ FLt(FMul(FMul(sl, sl), var), FMul(d, d))

\* v > median + sigma_upper * std, for sigma_upper >= 0
AboveBound(v, med, var, su) ==
  LET d == FSub(v, med) IN FLt(FInt(0), d) /\ FLt(FMul(FMul(su, su), var), FMul(d, d))

\* one iteration: the values within [median - sl*std, median + su*std]
ClipOnce(ch, S, sl, su) ==
  LET med == Median(ch, S)
      var == Variance(ch, S)
  IN  {p \in S : ~BelowBound(ch[p], med, var, sl) /\ ~AboveBound(ch[p], med, var, su)}

\* the sample left when no value is rejected any more or after iters iterations
RECURSIVE SigmaClipSet(_, _, _, _, _)
SigmaClipSet(ch, S, sl, su, iters) ==
  IF iters = 0 \/ S = {} THEN S
  ELSE LET S2 == ClipOnce(ch, S, sl, su)
       IN  IF S2 = S THEN S ELSE SigmaClipSet(ch, S2, sl, su, iters - 1)

\* sigma_clipped_stats(data_1d, sigma=sigma)[0]: the mean of the clipped sample
SigmaClippedMean(ch, S, sigma) == Mean(ch, SigmaClipSet(ch, S, sigma, sigma, maxiters))

-----------------------------------------------------------------------------
(* BkgSubtractor *)

BkgSubtractor_init(sg, box, f, ch) ==
  [cls |-> "BkgSubtractor", sigma |-> sg, use_mask_box |-> box, mask_fract |-> f,
   chid |-> ch]

\* the positions of bkgdata_1d: valid pixels, outside the box when use_mask_box
BkgSubtractor_sample(self, data_ch, h, w) ==
  {p \in DOMAIN data_ch :
     Valid(data_ch[p]) /\ ~(self.use_mask_box /\ InBox(p, h, w, self.mask_fract))}

\* __subtract_bkg: data_bkgsub
BkgSubtractor_subtract_bkg(self, data_ch, h, w) ==
  LET bkgval == SigmaClippedMean(data_ch, BkgSubtractor_sample(self, data_ch, h, w),
                                 self.sigma)
  IN  [p \in DOMAIN data_ch |->
         IF ~Valid(data_ch[p]) THEN FInt(0) ELSE FSub(data_ch[p], bkgval)]

\* __subtract_bkg raises ValueError: bkgdata_1d.min() (line 982) or
\* data_bkgsub_1d.min() (line 991) is taken of an empty array; both are
\* arguments of logger.debug and evaluated at every call
BkgSubtractor_raises(self, data_ch, h, w) ==
  \/ BkgSubtractor_sample(self, data_ch, h, w) = {}
  \/ ValidVals(BkgSubtractor_subtract_bkg(self, data_ch, h, w)) = {}

BkgSubtractor_call(self, data) ==
  IF data = NoneVal THEN NoneVal
  ELSE IF \E i \in Selected(self, data) :
            BkgSubtractor_raises(self, Chan(data, i), data.h, data.w)
       THEN Raise("ValueError")
  ELSE FromChans(data, [i \in Chans(data) |->
         IF i \in Selected(self, data)
         THEN BkgSubtractor_subtract_bkg(self, Chan(data, i), data.h, data.w)
         ELSE Chan(data, i)])

-----------------------------------------------------------------------------
(* SigmaClipper *)

\* square roots are rounded down to a multiple of 1/(denominator * SqrtRes)
SqrtRes == 8

RECURSIVE ISqrtFrom(_, _)
ISqrtFrom(m, r) == IF (r + 1) * (r + 1) > m THEN r ELSE ISqrtFrom(m, r + 1)

\* np.std from the variance: exact when the variance is a rational square
FSqrt(v) ==
  IF ~isfinite(v) \/ v[1] < 0 THEN NaN
  ELSE Fin(ISqrtFrom(v[1] * v[2] * SqrtRes * SqrtRes, 0), v[2] * SqrtRes)

SigmaClipper_init(sl, su, ch) ==
  [cls |-> "SigmaClipper", sigma_low |-> sl, sigma_up |-> su, chid |-> ch]

\* the sample the bounds returned by sigma_clip(..., return_bounds=True) are
\* computed from: the one the last iteration run started with
RECURSIVE SigmaClipLast(_, _, _, _, _)
SigmaClipLast(ch, S, sl, su, iters) ==
  IF S = {} THEN S
  ELSE LET S2 == ClipOnce(ch, S, sl, su)
       IN  IF S2 = S \/ iters <= 1 THEN S ELSE SigmaClipLast(ch, S2, sl, su, iters - 1)

\* __clip; sigma_clip of an empty sample returns NaN bounds, which no pixel
\* compares below or above
SigmaClipper_clip(self, data_ch) ==
  LET S == {p \in DOMAIN data_ch : Valid(data_ch[p])}
      L == SigmaClipLast(data_ch, S, self.sigma_low, self.sigma_up, maxiters)
      med == IF L = {} THEN NaN ELSE Median(data_ch, L)
      var == Variance(data_ch, L)
      thr_low == FSub(med, FMul(self.sigma_low, FSqrt(var)))
      thr_up == FAdd(med, FMul(self.sigma_up, FSqrt(var)))
  IN  [p \in DOMAIN data_ch |->
         IF ~Valid(data_ch[p]) THEN FInt(0)
         ELSE IF BelowBound(data_ch[p], med, var, self.sigma_low) THEN thr_low
         ELSE IF AboveBound(data_ch[p], med, var, self.sigma_up) THEN thr_up
         ELSE data_ch[p]]

SigmaClipper_call(self, data) ==
  IF data = NoneVal THEN NoneVal
  ELSE FromChans(data, [i \in Chans(data) |->
         IF i \in Selected(self, data) THEN SigmaClipper_clip(self, Chan(data, i))
         ELSE Chan(data, i)])

-----------------------------------------------------------------------------
(* SigmaClipShifter *)

SigmaClipShifter_init(sg, ch) == [cls |-> "SigmaClipShifter", sigma |-> sg, chid |-> ch]

\* __clip: data_clipped
SigmaClipShifter_clip(self, data_ch) ==
  LET S == {p \in DOMAIN data_ch : Valid(data_ch[p])}
      kept == SigmaClipSet(data_ch, S, self.sigma, self.sigma, maxiters)
      clipmean == Mean(data_ch, kept)
      stddev == FSqrt(Variance(data_ch, kept))
      newzero == FAdd(clipmean, FMul(self.sigma, stddev))
  IN  [p \in DOMAIN data_ch |->
         IF ~Valid(data_ch[p]) THEN FInt(0)
         ELSE IF FLt(FSub(data_ch[p], newzero), FInt(0)) THEN FInt(0)
         ELSE FSub(data_ch[p], newzero)]

\* __clip raises ValueError: data_clipped_1d.min() (line 1050) is an
\* argument of logger.debug and is taken of an empty array when no pixel
\* of data_clipped is valid
SigmaClipShifter_raises(self, data_ch) ==
  ValidVals(SigmaClipShifter_clip(self, data_ch)) = {}

SigmaClipShifter_call(self, data) ==
  IF data = NoneVal THEN NoneVal
  ELSE IF \E i \in Selected(self, data) : SigmaClipShifter_raises(self, Chan(data, i))
       THEN Raise("ValueError")
  ELSE FromChans(data, [i \in Chans(data) |->
         IF i \in Selected(self, data) THEN SigmaClipShifter_clip(self, Chan(data, i))
         ELSE Chan(data, i)])

-----------------------------------------------------------------------------
(* AbsMinMaxNormalizer, MaxScaler, AbsMaxScaler.  They take their minimum   *)
(* and maximum of a numpy masked array: the maximum of an array with every  *)
(* entry masked is the masked constant, arithmetic with it gives an array   *)
(* with every entry masked, and the assignment [~cond]= 0 unmasks the       *)
(* invalid pixels.  A pixel left masked holds its input value.              *)

\* the valid values of the whole tensor
AllValidVals(data) == {data.px[p] : p \in {q \in Coords(data) : Valid(data.px[q])}}

AbsMinMaxNormalizer_init(nmin, nmax) ==
  [cls |-> "AbsMinMaxNormalizer", norm_min |-> nmin, norm_max |-> nmax]

AbsMinMaxNormalizer_call(self, data) ==
  IF data = NoneVal THEN NoneVal
  ELSE IF AllValidVals(data) = {}
       THEN Tensor(data.h, data.w, data.c, [p \in Coords(data) |-> FInt(0)])
  ELSE LET data_min == MinOf(AllValidVals(data))
           data_max == MaxOf(AllValidVals(data))
       IN  Tensor(data.h, data.w, data.c, [p \in Coords(data) |->
             IF ~Valid(data.px[p]) THEN FInt(0)
             ELSE FAdd(FMul(FDiv(FSub(data.px[p], data_min), FSub(data_max, data_min)),
                            FSub(self.norm_max, self.norm_min)),
                       self.norm_min)])

MaxScaler_init == [cls |-> "MaxScaler"]

\* data_masked.max(axis=(0,1)).data: a channel without a valid pixel has no
\* maximum, and all its pixels are set to 0 by the mask restore
MaxScaler_call(self, data) ==
  IF data = NoneVal THEN NoneVal
  ELSE Tensor(data.h, data.w, data.c, [p \in Coords(data) |->
         IF ~Valid(data.px[p]) THEN FInt(0)
         ELSE FDiv(data.px[p], MaxOf(ValidVals(Chan(data, p[3]))))])

AbsMaxScaler_init(box, f) ==
  [cls |-> "AbsMaxScaler", use_mask_box |-> box, mask_fract |-> f]

\* the values under cond_max
AbsMaxScaler_vals(self, data) ==
  {data.px[p] :
     p \in {q \in Coords(data) :
              /\ Valid(data.px[q])
              /\ (self.use_mask_box =>
                    InBox(<<q[1], q[2]>>, data.h, data.w, self.mask_fract))}}

AbsMaxScaler_call(self, data) ==
  IF data = NoneVal THEN NoneVal
  ELSE Tensor(data.h, data.w, data.c, [p \in Coords(data) |->
         IF ~Valid(data.px[p]) THEN FInt(0)
         ELSE IF AbsMaxScaler_vals(self, data) = {} THEN data.px[p]
         ELSE FDiv(data.px[p], MaxOf(AbsMaxScaler_vals(self, data)))])

-----------------------------------------------------------------------------
(* Resizer.  Utils.resize_img_v2 is the resize backend: it scales the image *)
(* (never up when min_dim is None, never beyond max_dim) and pads it with   *)
(* zeros, centred, to a max_dim x max_dim canvas.  The interpolation is     *)
(* taken to the nearest source pixel.                                       *)

\* min_dim=None
NoDim == 0

MaxInt(a, b) == IF a >= b THEN a ELSE b
MinInt(a, b) == IF a <= b THEN a ELSE b

\* Python round() of the positive rational v: halves go to the even integer
Round(v) ==
  LET q == v[1] \div v[2]
      r == v[1] % v[2]
  IN  IF 2 * r < v[2] THEN q
      ELSE IF 2 * r > v[2] THEN q + 1
      ELSE IF q % 2 = 0 THEN q ELSE q + 1

\* the scale factor of mode="square"
resize_scale(h, w, min_dim, max_dim) ==
  LET up == IF min_dim # NoDim /\ min_dim > MinInt(h, w)
            THEN Fin(min_dim, MinInt(h, w)) ELSE FInt(1)
  IN  IF Round(FMul(FInt(MaxInt(h, w)), up)) > max_dim
      THEN Fin(max_dim, MaxInt(h, w)) ELSE up

\* ret[0] of Utils.resize_img_v2(data, min_dim, max_dim, mode="square")
resize_img_v2(data, min_dim, max_dim) ==
  LET scale == resize_scale(data.h, data.w, min_dim, max_dim)
      h2 == Round(FMul(FInt(data.h), scale))
      w2 == Round(FMul(FInt(data.w), scale))
      top == (max_dim - h2) \div 2
      left == (max_dim - w2) \div 2
  IN  Tensor(max_dim, max_dim, data.c, [p \in Pix3(max_dim, max_dim, data.c) |->
        IF /\ top <= p[1] /\ p[1] < top + h2
           /\ left <= p[2] /\ p[2] < left + w2
        THEN data.px[<<((p[1] - top) * data.h) \div h2,
                       ((p[2] - left) * data.w) \div w2, p[3]>>]
        ELSE FInt(0)])

\* what the two attempts of the try block (lines 1175-1198) end with
BackendOutcomes == {"ok", "raise", "null"}

Resizer_init(sz, pr, up, aa, padmin) ==
  [cls |-> "Resizer", resize_size |-> sz, preserve_range |-> pr, upscale |-> up,
   downscale_with_antialiasing |-> aa, set_pad_val_to_min |-> padmin]

\* lines 1204-1212: every invalid pixel of a channel gets the channel's
\* minimum valid value
Resizer_pad_val_to_min(data_resized) ==
  FromChans(data_resized, [i \in Chans(data_resized) |->
    LET data_ch == Chan(data_resized, i)
    IN  [p \in DOMAIN data_ch |->
           IF Valid(data_ch[p]) THEN data_ch[p] ELSE MinOf(ValidVals(data_ch))]])

\* lines 1175-1214 alone: what the backend and the padding fill give
Resizer_resize(self, data, outcome) ==
  IF outcome = "raise" THEN NoneVal
  ELSE LET min_dim == IF self.upscale THEN self.resize_size ELSE NoDim
           data_resized == IF outcome = "null" THEN NoneVal
                           ELSE resize_img_v2(data, min_dim, self.resize_size)
       IN  IF ~self.set_pad_val_to_min THEN data_resized
           \* data_resized.shape of None
           ELSE IF data_resized = NoneVal THEN Raise("AttributeError")
           \* data_ch_1d.min() of an empty array (line 1209)
           ELSE IF \E i \in Chans(data_resized) : ValidVals(Chan(data_resized, i)) = {}
                THEN Raise("ValueError")
           ELSE Resizer_pad_val_to_min(data_resized)

\* a Resizer without the is_same_size test
Resizer_call_always_resizes(self, data, outcome) ==
  IF data = NoneVal THEN NoneVal ELSE Resizer_resize(self, data, outcome)

Resizer_call(self, data, outcome) ==
  IF data = NoneVal THEN NoneVal
  ELSE IF data.w = self.resize_size /\ data.h = self.resize_size THEN data
  ELSE Resizer_resize(self, data, outcome)

-----------------------------------------------------------------------------
(* ChanResizer *)

nchans_max == 1000

ChanResizer_init(n) == [cls |-> "ChanResizer", nchans |-> n]

\* a resizer that leaves the new channels as np.zeros made them
ChanResizer_call_zero_fill(self, data) ==
  IF data = NoneVal THEN NoneVal
  ELSE IF self.nchans > nchans_max \/ self.nchans <= 0 THEN NoneVal
  ELSE IF self.nchans = data.c THEN data
  ELSE Tensor(data.h, data.w, self.nchans, [p \in Pix3(data.h, data.w, self.nchans) |->
         IF p[3] < data.c THEN data.px[p] ELSE FInt(0)])

ChanResizer_call(self, data) ==
  IF data = NoneVal THEN NoneVal
  ELSE IF self.nchans > nchans_max \/ self.nchans <= 0 THEN NoneVal
  ELSE IF self.nchans = data.c THEN data
  ELSE Tensor(data.h, data.w, self.nchans, [p \in Pix3(data.h, data.w, self.nchans) |->
         IF p[3] < data.c THEN data.px[p]
         ELSE data.px[<<p[1], p[2], data.c - 1>>]])

-----------------------------------------------------------------------------
(* Augmenter, preset "cae": OneOf(Fliplr, Flipud, Noop) followed by a       *)
(* rotation.  The backend's choice for one image is a draw; the angle drawn *)
(* is 0 in this model, and "raise" is the backend raising an exception.     *)

Augmenter_init == [cls |-> "Augmenter", augmenter_choice |-> "cae"]

Draws == {"Fliplr", "Flipud", "Noop", "raise"}

Fliplr(t) == Tensor(t.h, t.w, t.c, [p \in Coords(t) |-> t.px[<<p[1], t.w - 1 - p[2], p[3]>>]])
Flipud(t) == Tensor(t.h, t.w, t.c, [p \in Coords(t) |-> t.px[<<t.h - 1 - p[1], p[2], p[3]>>]])

\* a custom augmenter (ZScaleAugmenter._augment_batch_, lines 170-172) raises
\* when the image it computed is None
custom_augment_batch(image) == IF image = NoneVal THEN Raise("Exception") ELSE image

\* self.augmenter.augment_image(data)
augment_image(data, draw) ==
  IF draw = "raise" THEN Raise("Exception")
  ELSE IF draw = "null" THEN custom_augment_batch(NoneVal)
  ELSE IF draw = "Fliplr" THEN Fliplr(data)
  ELSE IF draw = "Flipud" THEN Flipud(data)
  ELSE data

\* an augmenter that turns the image by a quarter without keeping its size
Augmenter_call_rot90(self, data, draw) ==
  IF data = NoneVal THEN NoneVal
  ELSE LET data_aug == augment_image(data, draw)
       IN  IF data_aug.kind = "raise" THEN NoneVal
           ELSE Tensor(data_aug.w, data_aug.h, data_aug.c,
                  [p \in Pix3(data_aug.w, data_aug.h, data_aug.c) |->
                     data_aug.px[<<data_aug.h - 1 - p[2], p[1], p[3]>>]])

Augmenter_call(self, data, draw) ==
  IF data = NoneVal THEN NoneVal
  ELSE LET data_aug == augment_image(data, draw)
       IN  IF data_aug.kind = "raise" THEN NoneVal ELSE data_aug

-----------------------------------------------------------------------------
(* MaskShrinker.  cv2.erode with the elliptical element of getStructuring-  *)
(* Element: one pixel for kernsize 1, the 3 x 3 cross for kernsize 3;        *)
(* pixels outside the image do not erode.                                   *)

MaskShrinker_init(ks) == [cls |-> "MaskShrinker", kernsize |-> ks]

structel(kernsize) ==
  IF kernsize = 1 THEN {<<0, 0>>}
  ELSE {<<0, 0>>, <<-1, 0>>, <<1, 0>>, <<0, -1>>, <<0, 1>>}

\* mask_eroded != 0
mask_eroded(self, data_ch, p) ==
  \A d \in structel(self.kernsize) :
    LET q == <<p[1] + d[1], p[2] + d[2]>>
    IN  q \in DOMAIN data_ch => Valid(data_ch[q])

\* img_eroded is a view of data: the pixels are zeroed in the caller's tensor
MaskShrinker_call(self, data) ==
  IF data = NoneVal THEN NoneVal
  ELSE FromChans(data, [i \in Chans(data) |->
         [p \in Pix2(data.h, data.w) |->
            IF mask_eroded(self, Chan(data, i), p) THEN Chan(data, i)[p] ELSE FInt(0)]])

-----------------------------------------------------------------------------
(* The custom augmenters ZScaleAugmenter, PercentileThrAugmenter and        *)
(* SigmoidStretchAugmenter.  Their _augment_batch_ methods have one control *)
(* structure: reseed numpy.random when a seed is set, then, image by image, *)
(* fill the parameter list when it is empty and transform the image with    *)
(* it.  numpy.random is one generator per process: its state is the stream  *)
(* it was last seeded with and the number of values drawn since.  A value   *)
(* drawn is named by the stream and its position in it.  An image is given  *)
(* by its number of channels, the only thing the parameter handling reads.  *)

Workers == {1, 2}

\* seed=None
NoSeed == -1

AugmenterClasses == {"ZScaleAugmenter", "PercentileThrAugmenter", "SigmoidStretchAugmenter"}

\* ZScaleAugmenter(contrast, random_contrast, random_contrast_per_ch, seed) and
\* the like: random is random_contrast / random_percentile / random_gain
CustomAugmenter_init(c, rand, per_ch, sd) ==
  [cls |-> c, random |-> rand, random_per_ch |-> per_ch, seed |-> sd]

\* the generator of a process that never called np.random.seed
Unseeded == [stream |-> NoSeed, n |-> 0]

\* np.random.seed(seed)
np_random_seed(seed) == [stream |-> seed, n |-> 0]

\* np.random.uniform(low, high): the value drawn in state st, and the state after
np_random_uniform(st) == [kind |-> "uniform", stream |-> st.stream, n |-> st.n]
np_random_next(st) == [st EXCEPT !.n = st.n + 1]

\* self.contrast, self.percentile, self.gain
FixedParam == [kind |-> "fixed", stream |-> NoSeed, n |-> 0]

\* [v]*nb_channels
Times(v, n) == [j \in 1 .. n |-> v]

\* a worker outside _augment_batch_.  images is batch.images, params the list
\* contrasts / percentiles / gains, draws the values the call drew, applied
\* the list each transformed image was given, prev the first image's channel
\* count and the draws of the last call that transformed an image
NoCall ==
  [pc |-> "idle", callno |-> 0, images |-> <<>>, params |-> <<>>,
   draws |-> <<>>, applied |-> <<>>, prev |-> <<>>]

AugmentersIdle ==
  /\ np_random = Unseeded
  /\ augs = [w \in Workers |-> CustomAugmenter_init("ZScaleAugmenter", FALSE, FALSE, NoSeed)]
  /\ run = [w \in Workers |-> NoCall]

-----------------------------------------------------------------------------
(* The tensors given to the stages *)

PixVals == {NaN, FInt(-1)} \cup {FInt(n) : n \in 0 .. MaxVal}

\* <<height, width, channels>>
Shapes == {<<2, 2, 1>>, <<1, 2, 2>>}

TensorsOver(vals) ==
  UNION {{Tensor(s[1], s[2], s[3], px) : px \in [Pix3(s[1], s[2], s[3]) -> vals]} :
         s \in Shapes}

\* a 1 x n x 1 tensor holding the values of a sequence
Row(seq) == Tensor(1, Len(seq), 1, [p \in Pix3(1, Len(seq), 1) |-> seq[p[2] + 1]])

\* spec section 8: valid values {2,4,6,8}, the other pixels masked
MinMaxScenario == Row(<<FInt(2), FInt(4), FInt(0), FInt(6), NaN, FInt(8)>>)

\* spec section 8: a 4x4 image of 10s with one 0 corner
BkgScenario ==
  Tensor(4, 4, 1, [p \in Pix3(4, 4, 1) |-> IF p[1] = 0 /\ p[2] = 0 THEN FInt(0) ELSE FInt(10)])

\* spec section 8: values {0.01, 1, 100} and one masked 0
LogScenario == Row(<<Ten(-2), Ten(0), Ten(2), FInt(0)>>)

\* spec section 8: reference channel all 5, second channel {10, 0, 15}
DivScenario ==
  Tensor(1, 3, 2, [p \in Pix3(1, 3, 2) |->
    IF p[3] = 0 THEN FInt(5) ELSE <<FInt(10), FInt(0), FInt(15)>>[p[2] + 1]])

\* tensors whose positive values are powers of ten: the inputs of the stages
\* that take logarithms
LogPixVals == {NaN, FInt(0), FInt(-1), Ten(-1), Ten(1)}

IsLogDomain(t) ==
  IF t = NoneVal \/ t = LogScenario THEN TRUE
  ELSE \A p \in Coords(t) : t.px[p] \in LogPixVals

\* two-pixel tensors over the non-finite values and -1, 0, 1
InfTensors ==
  {Row(<<a, b>>) : a, b \in {NaN, PInf, NInf, FInt(0), FInt(1), FInt(-1)}}

\* the inputs of the stages that take no logarithm
IsGeneral(t) ==
  IF t \in {NoneVal, MinMaxScenario, BkgScenario, DivScenario} THEN TRUE
  ELSE \A p \in Coords(t) : t.px[p] \in PixVals \cup {PInf, NInf}

\* tensors with channels of fewer than min_npixels pixels: the inputs of
\* ZScaleTransformer
IsSmall(t) == IF t = NoneVal THEN TRUE ELSE t.h * t.w < min_npixels

StageInputs ==
  TensorsOver(PixVals) \cup TensorsOver(LogPixVals) \cup InfTensors
    \cup {MinMaxScenario, BkgScenario, LogScenario, DivScenario, NoneVal}

-----------------------------------------------------------------------------
(* One stage applied to one tensor: stage = Class(parameters); stage(data) *)

NoObj == [cls |-> "none"]

\* what is left of Class(parameters) when the constructor raised: no object
NotConstructed(cls, params) == [cls |-> "none", of |-> cls, params |-> params]

Idle == [kind |-> "idle"]

\* the call `Class(parameters)(arg)`: obj is what the constructor gave, after
\* is the caller's tensor once the call has ended
\* a call during which the library did b
StageCallWith(obj, result, after, b) ==
  /\ stage' = obj
  /\ out' = result
  /\ arg_after' = after
  /\ backend' = b
  /\ UNCHANGED arg
  /\ UNCHANGED pvars
  /\ UNCHANGED avars

StageCall(obj, result, after) == StageCallWith(obj, result, after, "none")

NormRanges == {<<FInt(0), FInt(1)>>, <<FInt(-1), FInt(1)>>}
ChidChoices == {-1, 0, 1}
Vectors == {<<>>, <<FInt(1)>>, <<FInt(2), FInt(-1)>>, <<FInt(0), FInt(2)>>}
MeansSigmas ==
  {<<<<FInt(1)>>, <<FInt(2)>>>>, <<<<FInt(2), FInt(-1)>>, <<FInt(0), FInt(2)>>>>,
   <<<<>>, <<FInt(1)>>>>, <<<<FInt(1)>>, <<>>>>, <<<<FInt(1)>>, <<FInt(2), FInt(-1)>>>>}
Fractions == {<<1, 2>>, <<7, 10>>, <<1, 1>>}
\* <<use_mask_box, mask_fract>>
BoxChoices == {<<FALSE, <<1, 2>>>>, <<TRUE, <<1, 2>>>>, <<TRUE, <<1, 1>>>>}
\* <<minmaxnorm, data_norm_min, data_norm_max, clip_neg>>
LogChoices ==
  {<<FALSE, FInt(-6), FInt(6), FALSE>>, <<TRUE, FInt(-6), FInt(6), FALSE>>,
   <<TRUE, FInt(0), FInt(2), TRUE>>}
\* <<logtransf, strip_chref, trim, trim_min, trim_max>>
DivChoices ==
  {<<FALSE, FALSE, FALSE, FInt(-6), FInt(6)>>, <<FALSE, TRUE, FALSE, FInt(-6), FInt(6)>>,
   <<TRUE, FALSE, FALSE, FInt(-6), FInt(6)>>, <<TRUE, FALSE, TRUE, FInt(-6), FInt(6)>>,
   <<TRUE, FALSE, TRUE, FInt(1), FInt(6)>>}
ContrastLists == {<<<<1, 4>>>>, <<<<1, 4>>, <<1, 4>>, <<1, 4>>>>}
\* <<sigma_low, sigma_up>>
ClipSigmas == {<<FInt(10), FInt(10)>>, <<FInt(1), FInt(1)>>}

CallMinMaxNormalizer ==
  /\ out = Idle /\ IsGeneral(arg)
  /\ \E r \in NormRanges :
       LET self == MinMaxNormalizer_init(r[1], r[2])
       IN  StageCall(self, MinMaxNormalizer_call(self, arg), arg)

CallMinShifter ==
  /\ out = Idle /\ IsGeneral(arg)
  /\ \E ch \in ChidChoices :
       LET self == MinShifter_init(ch)
       IN  StageCall(self, MinShifter_call(self, arg), arg)

CallShifter ==
  /\ out = Idle /\ IsGeneral(arg)
  /\ \E offs \in Vectors :
       LET self == Shifter_init(offs)
       IN  StageCall(self, Shifter_call(self, arg), arg)

CallStandardizer ==
  /\ out = Idle /\ IsGeneral(arg)
  /\ \E ms \in MeansSigmas :
       LET self == Standardizer_init(ms[1], ms[2])
       IN  StageCall(self, Standardizer_call(self, arg), arg)

CallNegativeDataFixer ==
  /\ out = Idle /\ IsGeneral(arg)
  /\ StageCall(NegativeDataFixer_init, NegativeDataFixer_call(NegativeDataFixer_init, arg), arg)

\* Scaler(scale_factors)(data): the call is reached only if the constructor returns
CallScaler ==
  /\ out = Idle /\ IsGeneral(arg)
  /\ \E scale_factors \in Vectors :
       LET self == Scaler_init(scale_factors)
       IN  IF self.kind = "raise"
           THEN StageCall(NotConstructed("Scaler", scale_factors), self, arg)
           ELSE StageCall(self, Scaler_call(self, arg), arg)

CallBorderMasker ==
  /\ out = Idle /\ IsGeneral(arg)
  /\ \E f \in Fractions :
       LET self == BorderMasker_init(f)
       IN  StageCall(self, BorderMasker_call(self, arg), BorderMasker_arg_after(self, arg))

CallChanMaxScaler ==
  /\ out = Idle /\ IsGeneral(arg)
  /\ \E ref \in {0, 1}, b \in BoxChoices :
       LET self == ChanMaxScaler_init(ref, b[1], b[2])
       IN  StageCall(self, ChanMaxScaler_call(self, arg), arg)

CallLogStretcher ==
  /\ out = Idle /\ IsLogDomain(arg)
  /\ \E ch \in {-1, 0}, c \in LogChoices :
       LET self == LogStretcher_init(ch, c[1], c[2], c[3], c[4])
       IN  StageCall(self, LogStretcher_call(self, arg), arg)

CallChanDivider ==
  /\ out = Idle
  /\ \E ref \in {0, 1}, c \in DivChoices :
       LET self == ChanDivider_init(ref, c[1], c[2], c[3], c[4], c[5])
       IN  /\ IF c[1] THEN IsLogDomain(arg) ELSE IsGeneral(arg)
           /\ StageCall(self, ChanDivider_call(self, arg), arg)

CallZScaleTransformer ==
  /\ out = Idle /\ IsGeneral(arg) /\ IsSmall(arg)
  /\ \E cs \in ContrastLists :
       LET self == ZScaleTransformer_init(cs)
       IN  StageCall(self, ZScaleTransformer_call(self, arg), arg)

CallBkgSubtractor ==
  /\ out = Idle /\ IsGeneral(arg)
  /\ \E b \in BoxChoices, ch \in ChidChoices :
       LET self == BkgSubtractor_init(FInt(3), b[1], b[2], ch)
       IN  StageCall(self, BkgSubtractor_call(self, arg), arg)

CallSigmaClipper ==
  /\ out = Idle /\ IsGeneral(arg)
  /\ \E sg \in ClipSigmas, ch \in {-1, 0} :
       LET self == SigmaClipper_init(sg[1], sg[2], ch)
       IN  StageCall(self, SigmaClipper_call(self, arg), arg)

CallAbsMinMaxNormalizer ==
  /\ out = Idle /\ IsGeneral(arg)
  /\ \E r \in NormRanges :
       LET self == AbsMinMaxNormalizer_init(r[1], r[2])
       IN  StageCall(self, AbsMinMaxNormalizer_call(self, arg), arg)

CallMaxScaler ==
  /\ out = Idle /\ IsGeneral(arg)
  /\ StageCall(MaxScaler_init, MaxScaler_call(MaxScaler_init, arg), arg)

CallAbsMaxScaler ==
  /\ out = Idle /\ IsGeneral(arg)
  /\ \E b \in BoxChoices :
       LET self == AbsMaxScaler_init(b[1], b[2])
       IN  StageCall(self, AbsMaxScaler_call(self, arg), arg)

CallSigmaClipShifter ==
  /\ out = Idle /\ IsGeneral(arg)
  /\ \E ch \in {-1, 0} :
       LET self == SigmaClipShifter_init(FInt(1), ch)
       IN  StageCall(self, SigmaClipShifter_call(self, arg), arg)

ResizeSizes == {2, 3}

\* the backend is given no image that it would scale down to an empty one
Resizable(t, sz) ==
  IF t = NoneVal THEN TRUE
  ELSE \A min_dim \in {NoDim, sz} :
         LET scale == resize_scale(t.h, t.w, min_dim, sz)
         IN  Round(FMul(FInt(t.h), scale)) >= 1 /\ Round(FMul(FInt(t.w), scale)) >= 1

CallResizer ==
  /\ out = Idle /\ IsGeneral(arg)
  /\ \E sz \in ResizeSizes, up \in BOOLEAN, aa \in BOOLEAN, padmin \in BOOLEAN,
        b \in BackendOutcomes :
       /\ Resizable(arg, sz)
       /\ LET self == Resizer_init(sz, TRUE, up, aa, padmin)
          IN  StageCallWith(self, Resizer_call(self, arg, b), arg, b)

ChanCounts == {0, 1, 2, 3, 4, nchans_max + 1}

CallChanResizer ==
  /\ out = Idle /\ IsGeneral(arg)
  /\ \E n \in ChanCounts :
       LET self == ChanResizer_init(n)
       IN  StageCall(self, ChanResizer_call(self, arg), arg)

AugmenterDraws == Draws \cup {"null"}

CallAugmenter ==
  /\ out = Idle /\ IsGeneral(arg)
  /\ \E draw \in AugmenterDraws :
       StageCallWith(Augmenter_init, Augmenter_call(Augmenter_init, arg, draw), arg, draw)

CallMaskShrinker ==
  /\ out = Idle /\ IsGeneral(arg)
  /\ \E ks \in {1, 3} :
       LET self == MaskShrinker_init(ks)
       IN  StageCall(self, MaskShrinker_call(self, arg), MaskShrinker_call(self, arg))

InitStages ==
  /\ preprocess_stages = <<>>
  /\ objs = <<>>
  /\ dp = NoObj
  /\ dp_val = NoObj
  /\ pc = "idle"
  /\ who = "dp"
  /\ x0 = NoneVal
  /\ rnd = <<>>
  /\ cur = NoneVal
  /\ k = 0
  /\ calls = <<>>
  /\ ret = NoneVal
  /\ disabled = {}
  /\ ndisable = [w \in {"dp", "dp_val"} |-> 0]
  /\ stage = NoObj
  /\ arg \in StageInputs
  /\ arg_after = arg
  /\ out = Idle
  /\ backend = "none"
  /\ AugmentersIdle

NextStages ==
  \/ CallMinMaxNormalizer
  \/ CallMinShifter
  \/ CallShifter
  \/ CallStandardizer
  \/ CallNegativeDataFixer
  \/ CallScaler
  \/ CallBorderMasker
  \/ CallChanMaxScaler
  \/ CallLogStretcher
  \/ CallChanDivider
  \/ CallZScaleTransformer
  \/ CallBkgSubtractor
  \/ CallSigmaClipper
  \/ CallAbsMinMaxNormalizer
  \/ CallMaxScaler
  \/ CallAbsMaxScaler
  \/ CallSigmaClipShifter
  \/ CallResizer
  \/ CallChanResizer
  \/ CallAugmenter
  \/ CallMaskShrinker

SpecStages == InitStages /\ [][NextStages]_vars


-----------------------------------------------------------------------------
(* DataPreprocessor *)

Reverse(s) == [i \in 1 .. Len(s) |-> s[Len(s) + 1 - i]]

\* stage.__call__(data) for the stage object obj; draw is read by an Augmenter only
Stage_call(obj, data, draw) ==
  IF obj.cls = "MinMaxNormalizer" THEN MinMaxNormalizer_call(obj, data)
  ELSE IF obj.cls = "Shifter" THEN Shifter_call(obj, data)
  ELSE IF obj.cls = "MinShifter" THEN MinShifter_call(obj, data)
  ELSE Augmenter_call(obj, data, draw)

\* Utils.compose_fcns(f1, ..., fn): the function x -> f1(...fn(x)), kept as
\* the sequence of the functions it applies, outermost first
compose_fcns(fcns) == fcns

\* the composed function without the short-circuit: a failure is handed on
compose_fcns_goes_on(r) == FALSE

\* the composed function returns at once when a stage returns failure
compose_fcns_stops(r) == r = NoneVal

\* __init__ without the reverse() of line 68
DataPreprocessor_init_unreversed(lst) ==
  LET fcns == lst
  IN  [self |-> [cls |-> "DataPreprocessor", fcns |-> fcns, pipeline |-> compose_fcns(fcns)],
       stages |-> lst]

\* __init__ with self.fcns bound to the caller's list, reversed in place
DataPreprocessor_init_inplace(lst) ==
  LET fcns == Reverse(lst)
  IN  [self |-> [cls |-> "DataPreprocessor", fcns |-> fcns, pipeline |-> compose_fcns(fcns)],
       stages |-> fcns]

\* DataPreprocessor(stages): the object built, and the caller's list after
\* the call; a bound method stage.__call__ is the id of its stage object
DataPreprocessor_init(lst) ==
  LET fcns == Reverse(lst)
  IN  [self |-> [cls |-> "DataPreprocessor", fcns |-> fcns, pipeline |-> compose_fcns(fcns)],
       stages |-> lst]

\* __call__ that falls back to its argument when the pipeline gives None
DataPreprocessor_call_or_data(r, data) == IF r = NoneVal THEN data ELSE r

\* __call__: return self.pipeline(data), r being what self.pipeline(data) gave
DataPreprocessor_call(r, data) == r

\* isinstance(self.fcns[i].__self__, Augmenter)
is_augmenter(heap, f) == heap[f].cls = "Augmenter"

\* fcns_new
NoAugmenters(heap, fcns) == SelectSeq(fcns, LAMBDA f : ~is_augmenter(heap, f))

\* disable_augmentation that sets self.fcns and keeps the old self.pipeline
DataPreprocessor_disable_augmentation_stale(self, heap) ==
  [self EXCEPT !.fcns = NoAugmenters(heap, self.fcns)]

\* disable_augmentation whose loop starts at the second function and always
\* recreates the pipeline
DataPreprocessor_disable_augmentation_from1(self, heap) ==
  LET fcns_new == IF self.fcns = <<>> THEN <<>> ELSE NoAugmenters(heap, Tail(self.fcns))
  IN  [self EXCEPT !.fcns = fcns_new, !.pipeline = compose_fcns(fcns_new)]

\* disable_augmentation: the object after the call
DataPreprocessor_disable_augmentation(self, heap) ==
  LET fcns_new == NoAugmenters(heap, self.fcns)
      recreate_pipeline == \E i \in 1 .. Len(self.fcns) : is_augmenter(heap, self.fcns[i])
  IN  IF recreate_pipeline
      THEN [self EXCEPT !.fcns = fcns_new, !.pipeline = compose_fcns(fcns_new)]
      ELSE self

-----------------------------------------------------------------------------
(* main() of run_simclr.py builds the stage objects and two pipelines from  *)
(* them; the pipelines are then called with images.                         *)

\* the stage objects main() may construct
StageConfigs ==
  {MinMaxNormalizer_init(FInt(0), FInt(1)), Shifter_init(<<FInt(1)>>), MinShifter_init(-1),
   Augmenter_init}

\* the stage lists, first stage first
StageLists == UNION {[1 .. n -> StageConfigs] : n \in 0 .. MaxStages}

\* the images given to a pipeline: 1 x 2 x 1 tensors, and None
PipeInputs ==
  {Row(<<a, b>>) : a, b \in {NaN, FInt(0), FInt(1), FInt(2)}} \cup {NoneVal}

\* the pipeline object named w
Pipeline(w) == IF w = "dp" THEN dp ELSE dp_val

\* the stage-side variables stay as they are while the pipelines run
StagesIdle == UNCHANGED <<svars, avars>>

\* lines 469-547: preprocess_stages.append(Class(...)), each stage a new object
MakeStages ==
  /\ pc = "main"
  /\ \E lst \in StageLists :
       /\ objs' = lst
       /\ preprocess_stages' = [i \in 1 .. Len(lst) |-> i]
  /\ pc' = "stages"
  /\ UNCHANGED <<dp, dp_val, who, x0, rnd, cur, k, calls, ret, disabled, ndisable>>
  /\ StagesIdle

\* line 551: dp= DataPreprocessor(preprocess_stages)
BuildDp ==
  /\ pc = "stages"
  /\ LET r == DataPreprocessor_init(preprocess_stages)
     IN  /\ dp' = r.self
         /\ preprocess_stages' = r.stages
  /\ pc' = "dp"
  /\ UNCHANGED <<objs, dp_val, who, x0, rnd, cur, k, calls, ret, disabled, ndisable>>
  /\ StagesIdle

\* lines 555-565: preprocess_stages_val holds the same objects;
\* dp_val= DataPreprocessor(preprocess_stages_val)
BuildDpVal ==
  /\ pc = "dp"
  /\ LET preprocess_stages_val == preprocess_stages
         r == DataPreprocessor_init(preprocess_stages_val)
     IN  dp_val' = r.self
  /\ pc' = "idle"
  /\ UNCHANGED <<preprocess_stages, objs, dp, who, x0, rnd, cur, k, calls, ret, disabled, ndisable>>
  /\ StagesIdle

\* w.disable_augmentation()
DisableAugmentation ==
  /\ pc = "idle"
  /\ dp # NoObj /\ dp_val # NoObj
  /\ \E w \in {"dp", "dp_val"} :
       /\ ndisable[w] < MaxDisable
       /\ IF w = "dp"
          THEN dp' = DataPreprocessor_disable_augmentation(dp, objs) /\ UNCHANGED dp_val
          ELSE dp_val' = DataPreprocessor_disable_augmentation(dp_val, objs) /\ UNCHANGED dp
       /\ disabled' = disabled \cup {w}
       /\ ndisable' = [ndisable EXCEPT ![w] = @ + 1]
  /\ UNCHANGED <<preprocess_stages, objs, pc, who, x0, rnd, cur, k, calls, ret>>
  /\ StagesIdle

\* w(data): self.pipeline(data) starts
CallPipeline ==
  /\ pc = "idle"
  /\ dp # NoObj /\ dp_val # NoObj
  /\ \E w \in {"dp", "dp_val"}, data \in PipeInputs :
       /\ who' = w
       /\ x0' = data
       /\ cur' = data
       /\ k' = Len(Pipeline(w).pipeline)
  /\ pc' = "running"
  /\ rnd' = <<>>
  /\ calls' = <<>>
  /\ UNCHANGED <<preprocess_stages, objs, dp, dp_val, ret, disabled, ndisable>>
  /\ StagesIdle

\* the composed function applies its next function, the k-th of the
\* composition, to the current value: r is what the stage returned or raised
StageDone(f, r) ==
  /\ calls' = Append(calls, [obj |-> f, result |-> r.kind])
  /\ IF r.kind = "raise" \/ compose_fcns_stops(r)
     THEN /\ ret' = DataPreprocessor_call(r, x0)
          /\ pc' = "done"
          /\ UNCHANGED <<cur, k>>
     ELSE /\ cur' = r
          /\ k' = k - 1
          /\ UNCHANGED <<ret, pc>>

StageStep ==
  /\ pc = "running"
  /\ k > 0
  /\ LET f == Pipeline(who).pipeline[k]
     IN  IF objs[f].cls = "Augmenter" /\ cur # NoneVal
         THEN \E draw \in Draws :
                /\ rnd' = Append(rnd, draw)
                /\ StageDone(f, Stage_call(objs[f], cur, draw))
         ELSE /\ UNCHANGED rnd
              /\ StageDone(f, Stage_call(objs[f], cur, "Noop"))
  /\ UNCHANGED <<preprocess_stages, objs, dp, dp_val, who, x0, disabled, ndisable>>
  /\ StagesIdle

\* every function of the composition has been applied: w(data) returns
Return ==
  /\ pc = "running"
  /\ k = 0
  /\ ret' = DataPreprocessor_call(cur, x0)
  /\ pc' = "done"
  /\ UNCHANGED <<preprocess_stages, objs, dp, dp_val, who, x0, rnd, cur, k, calls, disabled, ndisable>>
  /\ StagesIdle

Init ==
  /\ preprocess_stages = <<>>
  /\ objs = <<>>
  /\ dp = NoObj
  /\ dp_val = NoObj
  /\ pc = "main"
  /\ who = "dp"
  /\ x0 = NoneVal
  /\ rnd = <<>>
  /\ cur = NoneVal
  /\ k = 0
  /\ calls = <<>>
  /\ ret = NoneVal
  /\ disabled = {}
  /\ ndisable = [w \in {"dp", "dp_val"} |-> 0]
  /\ stage = NoObj
  /\ arg = NoneVal
  /\ arg_after = NoneVal
  /\ backend = "none"
  /\ AugmentersIdle
  /\ out = Idle

Next ==
  \/ MakeStages
  \/ BuildDp
  \/ BuildDpVal
  \/ DisableAugmentation
  \/ CallPipeline
  \/ StageStep
  \/ Return

Spec == Init /\ [][Next]_vars

-----------------------------------------------------------------------------
(* _augment_batch_ of the custom augmenters, one step at a time.  Each      *)
(* worker calls its own augmenter object; the workers are threads of one    *)
(* process and share numpy.random.                                          *)

ChannelCounts == {1, 2}

\* worker 1 has an augmenter of any class and configuration, seeded with 1
\* or not seeded; worker 2 has the sigmoidStretch_aug of the "simclr" preset
\* (line 1477: random_gain, one gain for all channels), seeded with 2 or not
\* seeded
AugConfigs(w) ==
  {CustomAugmenter_init(c, r[1], r[2], sd) :
     c \in IF w = 1 THEN AugmenterClasses ELSE {"SigmoidStretchAugmenter"},
     r \in IF w = 1 THEN {<<FALSE, FALSE>>, <<TRUE, FALSE>>, <<TRUE, TRUE>>}
           ELSE {<<TRUE, FALSE>>},
     sd \in {NoSeed, w}}

\* worker 1 makes up to MaxBatches batch calls, worker 2 one
BatchCalls(w) == IF w = 1 THEN MaxBatches ELSE 1

\* batch.images: up to MaxImages images
Batches == UNION {[1 .. len -> ChannelCounts] : len \in 0 .. MaxImages}

Running(w) == run[w].pc # "idle"

\* lines 134-145: the call starts; with batch.images None it returns at once
BeginBatch(w) ==
  /\ ~Running(w)
  /\ run[w].callno < BatchCalls(w)
  /\ \E none \in BOOLEAN, imgs \in Batches :
       run' = [run EXCEPT ![w] =
                 IF none THEN [@ EXCEPT !.pc = "done", !.images = <<>>,
                                        !.params = <<>>, !.draws = <<>>,
                                        !.applied = <<>>]
                 ELSE [@ EXCEPT !.pc = "seed", !.images = imgs,
                                !.params = <<>>, !.draws = <<>>,
                                !.applied = <<>>]]
  /\ UNCHANGED <<np_random, augs>>
  /\ UNCHANGED <<pvars, svars>>

\* a batch call that leaves numpy.random as it finds it
seed_ignored(self, st) == st

\* numpy.random after lines 143-145 of a call that found it in state st
seed_if_given(self, st) ==
  IF self.seed # NoSeed THEN np_random_seed(self.seed) ELSE st

\* lines 143-145: if self.seed is not None: np.random.seed(self.seed)
Reseed(w) ==
  /\ run[w].pc = "seed"
  /\ np_random' = seed_if_given(augs[w], np_random)
  /\ run' = [run EXCEPT ![w].pc = IF Len(run[w].images) = 0 THEN "done" ELSE "image"]
  /\ UNCHANGED augs
  /\ UNCHANGED <<pvars, svars>>

\* a loop that fills the parameter list for every image
not_params_always(params) == TRUE

\* `if not contrasts:` (line 152): the list is filled when it is empty
not_params(params) == params = <<>>

\* lines 148-163: the head of the loop body, `if not contrasts:`; the single
\* draw of the case without random_contrast_per_ch is made here
SetParams(w) ==
  LET r == run[w]
      nb_channels == r.images[Len(r.applied) + 1]
  IN  /\ r.pc = "image"
      /\ IF ~not_params(r.params) THEN
           /\ run' = [run EXCEPT ![w].pc = "apply"]
           /\ UNCHANGED np_random
         ELSE IF ~augs[w].random THEN
           /\ run' = [run EXCEPT ![w].pc = "apply",
                                 ![w].params = Times(FixedParam, nb_channels)]
           /\ UNCHANGED np_random
         ELSE IF augs[w].random_per_ch THEN
           /\ run' = [run EXCEPT ![w].pc = "drawing"]
           /\ UNCHANGED np_random
         ELSE
           /\ run' = [run EXCEPT ![w].pc = "apply",
                                 ![w].params = Times(np_random_uniform(np_random), nb_channels),
                                 ![w].draws = Append(@, np_random_uniform(np_random))]
           /\ np_random' = np_random_next(np_random)
      /\ UNCHANGED augs
      /\ UNCHANGED <<pvars, svars>>

\* lines 155-157: for k in range(nb_channels): one draw per channel
DrawPerChannel(w) ==
  LET r == run[w]
      nb_channels == r.images[Len(r.applied) + 1]
  IN  /\ r.pc = "drawing"
      /\ IF Len(r.params) < nb_channels THEN
           /\ run' = [run EXCEPT ![w].params = Append(@, np_random_uniform(np_random)),
                                 ![w].draws = Append(@, np_random_uniform(np_random))]
           /\ np_random' = np_random_next(np_random)
         ELSE
           /\ run' = [run EXCEPT ![w].pc = "apply"]
           /\ UNCHANGED np_random
      /\ UNCHANGED augs
      /\ UNCHANGED <<pvars, svars>>

\* lines 168-172: the image is transformed with the parameter list.  A list
\* shorter than the image's channels makes __get_zscale_image evaluate
\* len(self.contrasts) for its error message (line 187), an attribute the
\* object does not have: the call ends with AttributeError.
ApplyImage(w) ==
  LET r == run[w]
      nb_channels == r.images[Len(r.applied) + 1]
  IN  /\ r.pc = "apply"
      /\ run' = [run EXCEPT ![w] =
                   IF Len(r.params) < nb_channels THEN [r EXCEPT !.pc = "raised"]
                   ELSE [r EXCEPT !.applied = Append(@, [params |-> r.params,
                                                         ndraws |-> Len(r.draws)]),
                                  !.pc = IF Len(r.applied) + 1 = Len(r.images)
                                         THEN "done" ELSE "image"]]
      /\ UNCHANGED <<np_random, augs>>
      /\ UNCHANGED <<pvars, svars>>

\* the call returns or raises; prev keeps what the last call that
\* transformed an image drew
EndBatch(w) ==
  LET r == run[w]
  IN  /\ r.pc \in {"done", "raised"}
      /\ run' = [run EXCEPT ![w] =
                   [r EXCEPT !.pc = "idle", !.callno = r.callno + 1,
                             !.prev = IF r.applied = <<>> THEN r.prev
                                      ELSE <<[nb_channels |-> r.images[1],
                                              draws |-> r.draws]>>]]
      /\ UNCHANGED <<np_random, augs>>
      /\ UNCHANGED <<pvars, svars>>

InitAug ==
  /\ preprocess_stages = <<>>
  /\ objs = <<>>
  /\ dp = NoObj
  /\ dp_val = NoObj
  /\ pc = "idle"
  /\ who = "dp"
  /\ x0 = NoneVal
  /\ rnd = <<>>
  /\ cur = NoneVal
  /\ k = 0
  /\ calls = <<>>
  /\ ret = NoneVal
  /\ disabled = {}
  /\ ndisable = [w \in {"dp", "dp_val"} |-> 0]
  /\ stage = NoObj
  /\ arg = NoneVal
  /\ arg_after = NoneVal
  /\ out = Idle
  /\ backend = "none"
  /\ np_random = Unseeded
  /\ augs \in {a \in [Workers -> UNION {AugConfigs(w) : w \in Workers}] :
                 \A w \in Workers : a[w] \in AugConfigs(w)}
  /\ run = [w \in Workers |-> NoCall]

\* one thread: a batch call starts when no other call is under way
BeginBatchAlone(w) ==
  /\ \A v \in Workers : ~Running(v)
  /\ BeginBatch(w)

NextAug ==
  \E w \in Workers :
    \/ BeginBatchAlone(w)
    \/ Reseed(w)
    \/ SetParams(w)
    \/ DrawPerChannel(w)
    \/ ApplyImage(w)
    \/ EndBatch(w)

SpecAug == InitAug /\ [][NextAug]_vars

\* one thread per worker: the steps of the workers interleave
NextWorkers ==
  \E w \in Workers :
    \/ BeginBatch(w)
    \/ Reseed(w)
    \/ SetParams(w)
    \/ DrawPerChannel(w)
    \/ ApplyImage(w)
    \/ EndBatch(w)

SpecWorkers == InitAug /\ [][NextWorkers]_vars

-----------------------------------------------------------------------------
(* Properties of the pipeline (Spec) *)

\* s(n-1)(...s1(s0(x))...) for the stage list lst, from its i-th stage on:
\* every stage is applied, in list order, to what the one before it returned;
\* an Augmenter given a tensor takes the next draw; an exception ends the call
RECURSIVE InOrder(_, _, _, _, _)
InOrder(lst, heap, i, x, draws) ==
  IF i > Len(lst) \/ x.kind = "raise" THEN x
  ELSE LET obj == heap[lst[i]]
           takes == obj.cls = "Augmenter" /\ x # NoneVal /\ draws # <<>>
       IN  InOrder(lst, heap, i + 1,
                   Stage_call(obj, x, IF takes THEN Head(draws) ELSE "Noop"),
                   IF takes THEN Tail(draws) ELSE draws)

\* the stages of lst that are no Augmenter, in the order of lst
NonAugmenters(lst) == SelectSeq(lst, LAMBDA f : objs[f].cls # "Augmenter")

\* some stage of the call in progress has returned None
StageFailed == \E i \in DOMAIN calls : calls[i].result = "none"

\* C1: a call of a pipeline built from the stage list [s0, ..., s(n-1)]
\* returns s(n-1)(...s1(s0(x))...): first-declared stage first.
C1_OrderPreserved ==
  (pc = "done" /\ who \notin disabled) =>
    ret = InOrder(preprocess_stages, objs, 1, x0, rnd)

\* a call through two or more stages whose result depends on their order
C1_Witness ==
  /\ pc = "done" /\ who \notin disabled
  /\ Len(preprocess_stages) >= 2
  /\ ret.kind = "tensor"
  /\ ret = InOrder(preprocess_stages, objs, 1, x0, rnd)
  /\ ret # InOrder(Reverse(preprocess_stages), objs, 1, x0, rnd)

\* C2: if some stage of the pipeline returned None during a call, the call
\* returns None, whatever stages are declared after the failing one.
C2_FailurePropagates ==
  (pc = "done" /\ StageFailed) => ret = NoneVal

\* the first stage fails on a tensor, other stages are declared after it
C2_Witness ==
  /\ pc = "done"
  /\ x0 # NoneVal
  /\ calls # <<>> /\ calls[1].result = "none"
  /\ Len(Pipeline(who).pipeline) > 1
  /\ ret = NoneVal

\* C3: once a stage has returned None, no further stage is invoked for that
\* image and the pipeline call has returned.
C3_NoStageAfterFailure ==
  [][ /\ StageFailed => calls' = calls
      /\ StageFailed' => pc' = "done" ]_vars

\* a stage in the middle of the pipeline fails: an earlier one ran, a later
\* one was never invoked
C3_Witness ==
  /\ pc = "done"
  /\ Len(calls) = 2 /\ calls[1].result = "tensor" /\ calls[2].result = "none"
  /\ Len(Pipeline(who).pipeline) = 3

\* C4: after disable_augmentation a pipeline holds exactly the non-Augmenter
\* stages of the stage list in their original order, as a DataPreprocessor
\* built from the list without its Augmenters does, and a call returns what
\* those stages applied in order return.
C4_AugmentersRemoved ==
  \A w \in disabled :
    LET kept == NonAugmenters(preprocess_stages)
        direct == DataPreprocessor_init(kept).self
    IN  /\ Pipeline(w).fcns = direct.fcns
        /\ Pipeline(w).pipeline = direct.pipeline
        /\ (pc = "done" /\ who = w) => ret = InOrder(kept, objs, 1, x0, <<>>)

\* an Augmenter between two other stages was removed and the two ran
C4_Witness ==
  /\ pc = "done" /\ who \in disabled
  /\ Len(preprocess_stages) = 3
  /\ objs[1].cls # "Augmenter" /\ objs[2].cls = "Augmenter" /\ objs[3].cls # "Augmenter"
  /\ calls = <<[obj |-> 1, result |-> "tensor"], [obj |-> 3, result |-> "tensor"]>>
  /\ ret.kind = "tensor"

\* C5: constructing a DataPreprocessor changes neither the stage objects nor
\* the caller's list; disable_augmentation on one pipeline changes neither
\* the other pipeline nor the stage objects; a pipeline it was not called on
\* keeps the whole stage list and returns what all its stages, the Augmenter
\* included, return.
C5_Step ==
  /\ pc \in {"stages", "dp"} =>
       (objs' = objs /\ preprocess_stages' = preprocess_stages)
  /\ (pc = "idle" /\ dp' # dp) =>
       (dp_val' = dp_val /\ objs' = objs /\ preprocess_stages' = preprocess_stages)
  /\ (pc = "idle" /\ dp_val' # dp_val) =>
       (dp' = dp /\ objs' = objs /\ preprocess_stages' = preprocess_stages)
  /\ (pc' \in {"idle", "running", "done"} /\ "dp" \notin disabled') =>
       dp'.fcns = Reverse(preprocess_stages')
  /\ (pc' \in {"idle", "running", "done"} /\ "dp_val" \notin disabled') =>
       dp_val'.fcns = Reverse(preprocess_stages')
  /\ (pc' = "done" /\ who' \notin disabled' /\ disabled' # {}) =>
       ret' = InOrder(preprocess_stages', objs', 1, x0', rnd')

C5_SharedStagesUntouched == [][C5_Step]_vars

\* augmentation was disabled on dp, and dp_val still applied its Augmenter
C5_Witness ==
  /\ pc = "done" /\ who = "dp_val"
  /\ disabled = {"dp"}
  /\ dp.fcns # dp_val.fcns
  /\ \E i \in DOMAIN calls : objs[calls[i].obj].cls = "Augmenter" /\ calls[i].result = "tensor"
  /\ ret.kind = "tensor"

-----------------------------------------------------------------------------
(* Properties of the single stages (SpecStages) *)

\* a stage was called with a tensor and returned a tensor
Returned(cls) == stage.cls = cls /\ arg # NoneVal /\ out.kind = "tensor"

\* an input mixing finite non-zero, zero and NaN pixels
MixedInput(t) ==
  IF t = NoneVal THEN FALSE
  ELSE \A p \in Coords(t) : isfinite(t.px[p]) \/ t.px[p] = NaN

MaskPreserving ==
  {"MinMaxNormalizer", "Scaler", "Standardizer", "Shifter", "SigmaClipper",
   "ChanDivider", "ZScaleTransformer"}

\* C6: whenever one of MinMaxNormalizer, Scaler, Standardizer, Shifter,
\* SigmaClipper, ChanDivider, ZScaleTransformer returns a tensor for an input
\* of finite and NaN pixels, every pixel that is zero or non-finite in the
\* input is exactly 0 at the same coordinates of the output.
C6_MaskRestored ==
  (stage.cls \in MaskPreserving /\ MixedInput(arg) /\ out.kind = "tensor") =>
    \A p \in Coords(arg) :
      ~Valid(arg.px[p]) => (p \in Coords(out) /\ out.px[p] = FInt(0))

\* C7: a stage called with a 3-D tensor, whatever its mix of valid and
\* invalid pixels, ends by returning a tensor or None; it never raises.
C7_NoStageRaises ==
  (stage.cls # "none" /\ arg # NoneVal) => out.kind \in {"tensor", "none"}

\* C8: BkgSubtractor, given a tensor whose processed channels each have a
\* valid pixel, returns a tensor in which a valid pixel is its input value
\* minus the sigma-clipped mean of the channel's valid pixels and an invalid
\* pixel is exactly 0 (a channel of equal values comes out 0 everywhere).
C8_BkgSubtracted ==
  ( /\ stage.cls = "BkgSubtractor" /\ ~stage.use_mask_box
    /\ arg # NoneVal
    /\ \A i \in Selected(stage, arg) : ValidVals(Chan(arg, i)) # {} ) =>
    /\ out.kind = "tensor"
    /\ \A i \in Selected(stage, arg) : \A p \in Pix2(arg.h, arg.w) :
         LET data_ch == Chan(arg, i)
             centre == SigmaClippedMean(data_ch, {q \in DOMAIN data_ch : Valid(data_ch[q])},
                                        stage.sigma)
         IN  out.px[<<p[1], p[2], i>>] =
               IF Valid(data_ch[p]) THEN FSub(data_ch[p], centre) ELSE FInt(0)

\* C9: LogStretcher with min/max normalization and negative clipping off
\* maps every strictly positive pixel of a processed channel to its base-10
\* logarithm and every zero or non-finite input pixel to exactly 0.
C9_LogStretched ==
  (Returned("LogStretcher") /\ ~stage.minmaxnorm /\ ~stage.clip_neg) =>
    \A i \in LogStretcher_chans(stage, arg) : \A p \in Pix2(arg.h, arg.w) :
      LET v == arg.px[<<p[1], p[2], i>>]
          o == out.px[<<p[1], p[2], i>>]
      IN  /\ Positive(v) => o = Log10(v)
          /\ ~Valid(v) => o = FInt(0)

\* C10: MinMaxNormalizer(norm_min, norm_max), for a channel whose valid
\* pixels take at least two values, sends a valid pixel v to the value o with
\* (o - norm_min) * (max - min) = (v - min) * (norm_max - norm_min), min and
\* max being the least and greatest valid pixel of the channel, and sends
\* every invalid pixel to 0.
C10_MinMaxFormula ==
  Returned("MinMaxNormalizer") =>
    \A i \in Chans(arg) :
      LET vals == ValidVals(Chan(arg, i))
      IN  Cardinality(vals) >= 2 =>
            \E mn \in vals, mx \in vals :
              /\ \A v \in vals : FLe(mn, v) /\ FLe(v, mx)
              /\ \A p \in Pix2(arg.h, arg.w) :
                   LET v == arg.px[<<p[1], p[2], i>>]
                       o == out.px[<<p[1], p[2], i>>]
                   IN  IF Valid(v)
                       THEN /\ isfinite(o)
                            /\ FMul(FSub(o, stage.norm_min), FSub(mx, mn)) =
                                 FMul(FSub(v, mn), FSub(stage.norm_max, stage.norm_min))
                       ELSE o = FInt(0)

\* the scenario of spec section 8: {2,4,6,8} with range (0,1) gives {0, 1/3, 2/3, 1}
C10_Witness ==
  /\ stage = MinMaxNormalizer_init(FInt(0), FInt(1))
  /\ arg = MinMaxScenario
  /\ out = Row(<<FInt(0), Fin(1, 3), FInt(0), Fin(2, 3), FInt(0), FInt(1)>>)

\* C11: ChanDivider(chref) without log transform and without strip: a pixel
\* of a non-reference channel becomes value / reference value where the
\* pixel and the reference pixel are both valid and 0 otherwise; the
\* reference channel keeps its values, its invalid pixels being 0.
C11_ChannelRatios ==
  (Returned("ChanDivider") /\ ~stage.logtransf /\ ~stage.strip_chref) =>
    /\ Coords(out) = Coords(arg)
    /\ \A p \in Coords(arg) :
         LET v == arg.px[p]
             ref == arg.px[<<p[1], p[2], stage.chref>>]
             o == out.px[p]
         IN  IF p[3] = stage.chref THEN o = (IF Valid(v) THEN v ELSE FInt(0))
             ELSE IF Valid(v) /\ Valid(ref) THEN isfinite(o) /\ FMul(o, ref) = v
             ELSE o = FInt(0)

\* the scenario of spec section 8: {10, 0, 15} over a reference of 5s gives {2, 0, 3}
C11_Witness ==
  /\ stage.cls = "ChanDivider" /\ stage.chref = 0
  /\ ~stage.logtransf /\ ~stage.strip_chref
  /\ arg = DivScenario
  /\ out = Tensor(1, 3, 2, [p \in Pix3(1, 3, 2) |->
             IF p[3] = 0 THEN FInt(5) ELSE <<FInt(2), FInt(0), FInt(3)>>[p[2] + 1]])

\* C12: ChanDivider with strip_chref, given a tensor of C >= 2 channels
\* (chref one of them), returns a tensor of C-1 channels: the reference
\* channel is dropped and the other channels follow in their original order.
C12_ReferenceStripped ==
  ( /\ stage.cls = "ChanDivider" /\ stage.strip_chref
    /\ arg # NoneVal /\ arg.c >= 2 /\ stage.chref \in Chans(arg) ) =>
    /\ out.kind = "tensor"
    /\ out.h = arg.h /\ out.w = arg.w /\ out.c = arg.c - 1
    /\ \A p \in Coords(out) :
         LET i == IF p[3] < stage.chref THEN p[3] ELSE p[3] + 1
             kept == [stage EXCEPT !.strip_chref = FALSE]
         IN  out.px[p] = ChanDivider_call(kept, arg).px[<<p[1], p[2], i>>]

\* C13: Scaler(scale_factors) can be constructed, and applied to a tensor
\* with as many channels as the vector has entries it returns the tensor
\* with every pixel of channel i multiplied by factor i.
C13_ScalerScales ==
  \A sf \in Vectors :
    ( /\ stage \in {NotConstructed("Scaler", sf), [cls |-> "Scaler", scale_factors |-> sf]}
      /\ arg # NoneVal /\ Len(sf) = arg.c ) =>
      /\ out.kind = "tensor"
      /\ Coords(out) = Coords(arg)
      /\ \A p \in Coords(arg) : out.px[p] = FMul(arg.px[p], sf[p[3] + 1])

\* a parameter vector that is empty or whose length is not the channel count
Mismatch(v, t) == Len(v) = 0 \/ Len(v) # t.c

\* C14: Shifter and Standardizer return None when offsets, means or sigmas
\* is empty or of a length other than the channel count of the input, and
\* ZScaleTransformer returns None when it has fewer contrasts than the input
\* has channels.
C14_ParameterMismatch ==
  arg # NoneVal =>
    /\ (stage.cls = "Shifter" /\ Mismatch(stage.offsets, arg)) => out = NoneVal
    /\ (stage.cls = "Standardizer"
          /\ (Mismatch(stage.means, arg) \/ Mismatch(stage.sigmas, arg))) => out = NoneVal
    /\ (stage.cls = "ZScaleTransformer" /\ Len(stage.contrasts) < arg.c) => out = NoneVal

\* means fit the input and sigmas do not
C14_Witness ==
  /\ stage.cls = "Standardizer"
  /\ arg # NoneVal
  /\ ~Mismatch(stage.means, arg) /\ Mismatch(stage.sigmas, arg)
  /\ out = NoneVal

\* C15: MaxScaler and AbsMaxScaler return None when a maximum they divide by
\* (of a channel; of the whole tensor, inside the centre box if that is
\* used) does not exist or is <= 0, and AbsMinMaxNormalizer returns None
\* when the tensor has no valid pixel.
C15_DegenerateMaximum ==
  arg # NoneVal =>
    /\ ( /\ stage.cls = "MaxScaler"
         /\ \E i \in Chans(arg) :
              \/ ValidVals(Chan(arg, i)) = {}
              \/ FLe(MaxOf(ValidVals(Chan(arg, i))), FInt(0)) ) => out = NoneVal
    /\ ( /\ stage.cls = "AbsMaxScaler"
         /\ \/ AbsMaxScaler_vals(stage, arg) = {}
            \/ FLe(MaxOf(AbsMaxScaler_vals(stage, arg)), FInt(0)) ) => out = NoneVal
    /\ (stage.cls = "AbsMinMaxNormalizer" /\ AllValidVals(arg) = {}) => out = NoneVal

\* the channels a stage of class cls called with arg processes without a
\* usable sample
NoSampleChans(cls) ==
  IF stage.cls # cls \/ arg = NoneVal THEN {}
  ELSE CASE cls = "MinMaxNormalizer" ->
              {i \in Chans(arg) : ValidVals(Chan(arg, i)) = {}}
         [] cls = "LogStretcher" ->
              {i \in LogStretcher_chans(stage, arg) :
                 \A p \in Pix2(arg.h, arg.w) : ~Positive(Chan(arg, i)[p])}
         [] cls = "BkgSubtractor" ->
              {i \in Selected(stage, arg) :
                 BkgSubtractor_sample(stage, Chan(arg, i), arg.h, arg.w) = {}}
         [] OTHER ->
              {i \in Selected(stage, arg) : ValidVals(Chan(arg, i)) = {}}

\* C16: MinMaxNormalizer, LogStretcher, BkgSubtractor, SigmaClipShifter and
\* SigmaClipper return None when a channel they process has no usable sample
\* (no valid pixel; outside the excluded box for BkgSubtractor; strictly
\* positive for LogStretcher), and neither raise nor return a tensor.
C16_NoSampleFails ==
  \A cls \in {"MinMaxNormalizer", "LogStretcher", "BkgSubtractor",
              "SigmaClipShifter", "SigmaClipper"} :
    NoSampleChans(cls) # {} => out = NoneVal

\* C17: Resizer(resize_size=N) called with a tensor of height N and width N
\* returns that tensor, every pixel unchanged, whatever the upscale,
\* antialiasing and pad-to-min flags and whatever the content.
C17_SameSizeUntouched ==
  (stage.cls = "Resizer" /\ arg # NoneVal
     /\ arg.h = stage.resize_size /\ arg.w = stage.resize_size) => out = arg

C17_Witness ==
  /\ stage.cls = "Resizer" /\ arg # NoneVal
  /\ arg.h = stage.resize_size /\ arg.w = stage.resize_size
  /\ stage.upscale /\ stage.downscale_with_antialiasing /\ stage.set_pad_val_to_min
  /\ \E p \in Coords(arg) : ~Valid(arg.px[p])
  /\ out = arg

\* C18: for 1 <= k <= 1000, ChanResizer(k) applied to its own output returns
\* that output unchanged, and applied to a tensor of c < k channels it
\* returns k channels: channels 0..c-1 are the input's and each of the
\* channels c..k-1 is input channel c-1.
C18_ChannelsReplicated ==
  (stage.cls = "ChanResizer" /\ arg # NoneVal
     /\ 1 <= stage.nchans /\ stage.nchans <= 1000) =>
    /\ out.kind = "tensor"
    /\ ChanResizer_call(stage, out) = out
    /\ arg.c < stage.nchans =>
         /\ out.h = arg.h /\ out.w = arg.w /\ out.c = stage.nchans
         /\ \A p \in Coords(out) :
              out.px[p] = arg.px[<<p[1], p[2], MinInt(p[3], arg.c - 1)>>]

C18_Witness ==
  /\ stage = ChanResizer_init(4) /\ arg # NoneVal /\ arg.c = 2
  /\ out.kind = "tensor" /\ out.c = 4
  /\ \E q \in Pix2(arg.h, arg.w) : Valid(arg.px[<<q[1], q[2], 1>>])
  /\ Chan(out, 2) = Chan(arg, 1) /\ Chan(out, 3) = Chan(arg, 1)

\* C19: a tensor returned by a stage has the height and width of the input
\* unless the stage is a Resizer, and the channel count of the input unless
\* the stage is a ChanResizer or a ChanDivider with strip_chref.
C19_ShapePreserved ==
  (stage.cls # "none" /\ arg # NoneVal /\ out.kind = "tensor") =>
    /\ stage.cls # "Resizer" => (out.h = arg.h /\ out.w = arg.w)
    /\ (IF stage.cls = "ChanDivider" THEN ~stage.strip_chref
        ELSE stage.cls # "ChanResizer") => out.c = arg.c

C19_Witness ==
  /\ stage.cls = "Augmenter" /\ arg # NoneVal /\ arg.h # arg.w
  /\ out.kind = "tensor" /\ out # arg
  /\ out.h = arg.h /\ out.w = arg.w /\ out.c = arg.c

\* C20: when the backend of a Resizer or of an Augmenter fails (it raises,
\* a custom augmenter raises on a null image, or the resize gives None), the
\* stage returns None and raises nothing, whatever its flags.
C20_BackendFailureIsNone ==
  /\ ( /\ stage.cls = "Resizer" /\ arg # NoneVal
       /\ ~(arg.h = stage.resize_size /\ arg.w = stage.resize_size)
       /\ backend \in {"raise", "null"} ) => out = NoneVal
  /\ ( /\ stage.cls = "Augmenter" /\ arg # NoneVal
       /\ backend \in {"raise", "null"} ) => out = NoneVal

-----------------------------------------------------------------------------
(* Properties of the custom augmenters (SpecAug, SpecWorkers) *)

\* the draws a batch call makes for a first image of nb channels
DrawsNeeded(a, nb) == IF ~a.random THEN 0 ELSE IF a.random_per_ch THEN nb ELSE 1

\* C21: in one batch call of a custom augmenter with a random parameter, the
\* parameter (one value, or one per channel) is drawn once, before the first
\* image is transformed, every image of the call is transformed with the
\* values drawn, and the next batch call draws again.
C21_DrawnOncePerBatch ==
  \A w \in Workers :
    (augs[w].random /\ run[w].applied # <<>>) =>
      /\ Len(run[w].draws) = DrawsNeeded(augs[w], run[w].images[1])
      /\ \A j \in 1 .. Len(run[w].applied) :
           /\ run[w].applied[j].ndraws = Len(run[w].draws)
           /\ run[w].applied[j].params = run[w].applied[1].params
           /\ \A c \in 1 .. run[w].images[1] :
                run[w].applied[j].params[c] =
                  run[w].draws[IF augs[w].random_per_ch THEN c ELSE 1]

C21_Witness ==
  \E w \in Workers :
    /\ augs[w].random /\ augs[w].random_per_ch
    /\ run[w].callno = 1 /\ run[w].prev # <<>>
    /\ run[w].images = <<2, 2>> /\ Len(run[w].applied) = 2
    /\ Len(run[w].draws) = 2
    /\ run[w].draws # run[w].prev[1].draws

\* C22: a custom augmenter with a fixed seed reseeds numpy.random at the
\* start of every batch call, so the values a call draws are the first
\* values of the seed's stream, and two calls whose inputs have the same
\* channel count draw the same values, whatever was drawn in between.
C22_SeededCallsRepeat ==
  \A w \in Workers :
    (augs[w].seed # NoSeed /\ augs[w].random) =>
      /\ \A j \in 1 .. Len(run[w].draws) :
           run[w].draws[j] = np_random_uniform([stream |-> augs[w].seed, n |-> j - 1])
      /\ ( /\ run[w].applied # <<>> /\ run[w].prev # <<>>
           /\ run[w].images[1] = run[w].prev[1].nb_channels )
         => run[w].draws = run[w].prev[1].draws

\* worker 2's unseeded augmenter drew the second value of stream 1 between
\* the two calls of worker 1's augmenter, seeded with 1
C22_Witness ==
  /\ augs[1].seed = 1 /\ augs[1].random /\ augs[2].seed = NoSeed
  /\ run[1].callno = 1 /\ run[1].pc = "done" /\ run[1].applied # <<>>
  /\ run[1].prev # <<>> /\ run[1].draws # <<>>
  /\ run[1].draws = run[1].prev[1].draws
  /\ run[2].prev # <<>>
  /\ run[2].prev[1].draws = <<np_random_uniform([stream |-> 1, n |-> 1])>>

\* the first len values a seeded augmenter draws in a batch call when no
\* one else uses numpy.random
AloneDraws(self, len) ==
  [j \in 1 .. len |-> np_random_uniform([np_random_seed(self.seed) EXCEPT !.n = j - 1])]

\* C23: with one pipeline instance per worker, each worker's augmenter draws
\* under every interleaving of the workers' steps the values it draws when
\* it runs alone: for a seeded augmenter, in every batch call, the first
\* values of its seed's stream.
C23_WorkersIndependent ==
  \A w \in {v \in Workers : augs[v].seed # NoSeed} :
    run[w].draws = AloneDraws(augs[w], Len(run[w].draws))

-----------------------------------------------------------------------------
(* Further properties of the single stages (SpecStages) *)

\* mean + sigma * std of the sigma-clipped valid pixels of a channel
NewZero(sigma, data_ch) ==
  LET S == {p \in DOMAIN data_ch : Valid(data_ch[p])}
      kept == SigmaClipSet(data_ch, S, sigma, sigma, maxiters)
  IN  FAdd(Mean(data_ch, kept), FMul(sigma, FSqrt(Variance(data_ch, kept))))

\* C24: when every channel a SigmaClipShifter processes has a valid pixel, it
\* returns a tensor in which a valid pixel x of a processed channel is
\* max(x - (mean + sigma*std), 0) and an invalid pixel is 0; a channel whose
\* valid pixels are all at or below mean + sigma*std comes out all 0.
C24_ShiftedAndClipped ==
  (stage.cls = "SigmaClipShifter" /\ arg # NoneVal
     /\ \A i \in Selected(stage, arg) : ValidVals(Chan(arg, i)) # {}) =>
    /\ out.kind = "tensor"
    /\ Coords(out) = Coords(arg)
    /\ \A p \in Coords(arg) :
         p[3] \in Selected(stage, arg) =>
           LET x == arg.px[p]
               d == FSub(x, NewZero(stage.sigma, Chan(arg, p[3])))
           IN  out.px[p] = IF ~Valid(x) THEN FInt(0)
                           ELSE IF FLt(d, FInt(0)) THEN FInt(0) ELSE d

\* the pixels r .. r+1 of an axis of n pixels lie within, or lie outside, the
\* centred interval of length f*n, f = f[1]/f[2]
WithinCentred(r, n, f) ==
  /\ 2 * f[2] * r >= n * f[2] - n * f[1]
  /\ 2 * f[2] * (r + 1) <= n * f[2] + n * f[1]
OutsideCentred(r, n, f) ==
  \/ 2 * f[2] * (r + 1) <= n * f[2] - n * f[1]
  \/ 2 * f[2] * r >= n * f[2] + n * f[1]

\* C25: BorderMasker(f), 0 < f <= 1, returns a tensor in which every pixel
\* inside the centred box of height f*H and width f*W has its input value
\* and every pixel outside the box is 0; with f = 1 no pixel is zeroed.
C25_BoxKept ==
  (stage.cls = "BorderMasker" /\ arg # NoneVal) =>
    /\ out.kind = "tensor"
    /\ Coords(out) = Coords(arg)
    /\ \A p \in Coords(arg) :
         /\ ( /\ WithinCentred(p[1], arg.h, stage.mask_fract)
              /\ WithinCentred(p[2], arg.w, stage.mask_fract) ) => out.px[p] = arg.px[p]
         /\ ( \/ OutsideCentred(p[1], arg.h, stage.mask_fract)
              \/ OutsideCentred(p[2], arg.w, stage.mask_fract) ) => out.px[p] = FInt(0)

\* the pixels of the canvas that Utils.resize_img_v2 added around the image
IsPadding(p, data, min_dim, max_dim) ==
  LET scale == resize_scale(data.h, data.w, min_dim, max_dim)
      h2 == Round(FMul(FInt(data.h), scale))
      w2 == Round(FMul(FInt(data.w), scale))
      top == (max_dim - h2) \div 2
      left == (max_dim - w2) \div 2
  IN  ~( /\ top <= p[1] /\ p[1] < top + h2
         /\ left <= p[2] /\ p[2] < left + w2 )

\* C26: a Resizer that resizes (the input is not of the target size and the
\* backend gives an image) returns, with set_pad_val_to_min, the resized
\* image with each padding pixel set to the minimum valid value of its
\* channel and every other pixel as the resize gave it; without it, the
\* resized image as the backend gave it.
C26_PaddingFilled ==
  ( /\ stage.cls = "Resizer" /\ arg # NoneVal
    /\ ~(arg.h = stage.resize_size /\ arg.w = stage.resize_size)
    /\ backend = "ok" ) =>
    LET min_dim == IF stage.upscale THEN stage.resize_size ELSE NoDim
        resized == resize_img_v2(arg, min_dim, stage.resize_size)
    IN  IF ~stage.set_pad_val_to_min THEN out = resized
        ELSE /\ out.kind = "tensor"
             /\ Coords(out) = Coords(resized)
             /\ \A p \in Coords(resized) :
                  IF IsPadding(p, arg, min_dim, stage.resize_size)
                  THEN out.px[p] = MinOf(ValidVals(Chan(resized, p[3])))
                  ELSE out.px[p] = resized.px[p]

ChidStages == {"BkgSubtractor", "SigmaClipShifter", "SigmaClipper", "MinShifter"}

\* C27: a stage with a channel selector changes only the channels it
\* selects. Whenever BkgSubtractor, SigmaClipShifter, SigmaClipper or
\* MinShifter with chid = k >= 0 returns a tensor, every channel other than k
\* is the input's; whenever LogStretcher with chid = k >= 0 returns a tensor,
\* channel k is the input's and every other channel is log-transformed.
C27_OnlySelectedChange ==
  (stage.cls \in ChidStages \cup {"LogStretcher"} /\ out.kind = "tensor") =>
    /\ <<out.h, out.w, out.c>> = <<arg.h, arg.w, arg.c>>
    /\ (stage.cls \in ChidStages /\ stage.chid >= 0) =>
         \A i \in Chans(arg) \ {stage.chid} : Chan(out, i) = Chan(arg, i)
    /\ (stage.cls = "LogStretcher" /\ stage.chid >= 0) =>
         \A i \in Chans(arg) :
           Chan(out, i) = IF i = stage.chid THEN Chan(arg, i)
                          ELSE LogStretcher_chan(stage, Chan(arg, i))

\* a two-channel tensor given to a stage that selects channel 0, which the
\* stage changed
C27_Witness ==
  /\ stage.cls \in ChidStages /\ stage.chid = 0
  /\ out.kind = "tensor" /\ arg.c = 2
  /\ Chan(out, 0) # Chan(arg, 0)
  /\ Chan(out, 1) = Chan(arg, 1)
  /\ \E p \in DOMAIN Chan(arg, 1) : Valid(Chan(arg, 1)[p])

\* C28: applying a stage leaves the caller's input tensor unchanged: after
\* the call of any stage, BorderMasker and MaskShrinker included, the tensor
\* the caller passed holds the pixels it held before the call.
C28_InputUnchanged == (out # Idle) => (arg_after = arg)

-----------------------------------------------------------------------------
(* Further properties of the pipeline (Spec) *)

\* the pipeline w after the step
PipelineNext(w) == IF w = "dp" THEN dp' ELSE dp_val'

\* C29: disable_augmentation is a no-op without augmenters and idempotent:
\* no step changes the stage list or the composed callable of a built
\* pipeline that holds no Augmenter stage, nor of one disable_augmentation
\* was already called on, so after any number of calls the pipeline is the
\* one the first call left.
C29_Step ==
  \A w \in {"dp", "dp_val"} :
    ( /\ pc \in {"idle", "running", "done"}
      /\ \/ w \in disabled
         \/ \A i \in 1 .. Len(Pipeline(w).fcns) : ~is_augmenter(objs, Pipeline(w).fcns[i]) )
    => /\ PipelineNext(w).fcns = Pipeline(w).fcns
       /\ PipelineNext(w).pipeline = Pipeline(w).pipeline

C29_DisableIdempotent == [][C29_Step]_vars

\* disable_augmentation was called MaxDisable times on each of the two
\* pipelines built from a stage list with an Augmenter: every call after
\* the first was made on a pipeline without Augmenter, and the pipelines are
\* what the first call left
C29_Witness ==
  /\ pc = "idle"
  /\ ndisable["dp"] = MaxDisable /\ ndisable["dp_val"] = MaxDisable
  /\ \E i \in DOMAIN objs : objs[i].cls = "Augmenter"
  /\ dp.fcns # <<>>
  /\ dp.fcns = NoAugmenters(objs, Reverse(preprocess_stages))
  /\ dp.pipeline = compose_fcns(dp.fcns)
  /\ dp_val.fcns = dp.fcns

-----------------------------------------------------------------------------
(* Further properties of the single stages (SpecStages), continued *)

\* C30: for an input in which each channel has at least one valid pixel,
\* whenever MinMaxNormalizer(norm_min, norm_max) returns a tensor, every
\* output pixel is finite and the output of every valid pixel lies in
\* [norm_min, norm_max], a channel whose valid pixels all share one value
\* included.
C30_NormalizedInRange ==
  ( /\ stage.cls = "MinMaxNormalizer" /\ arg # NoneVal
    /\ \A i \in Chans(arg) : ValidVals(Chan(arg, i)) # {}
    /\ out.kind = "tensor" ) =>
    \A p \in Coords(arg) :
      /\ isfinite(out.px[p])
      /\ Valid(arg.px[p]) =>
           FLe(stage.norm_min, out.px[p]) /\ FLe(out.px[p], stage.norm_max)

=============================================================================
